---- MODULE Spec2Model ----
(***************************************************************************)
(* State-machine model of the localdocs indexing engine of                 *)
(* gpt4all-chat/database.cpp: the relational store (folders, documents,    *)
(* chunks, chunks_fts, collections), the vector index, the per-folder scan *)
(* queue with its time-sliced worker, the chunker, the embedding           *)
(* coordinator and the folder lifecycle.                                   *)
(***************************************************************************)
EXTENDS Integers, Sequences, FiniteSets, TLC

(***************************************************************************)
(* Bounds of the model.                                                    *)
(***************************************************************************)
MaxMtime == 2
MaxChunkId == 4
MaxQueue == 2
MaxPerTick == 2
MaxInFlight == 1
MaxOps == 3
MaxFaults == 1

(***************************************************************************)
(* Program constants.                                                      *)
(***************************************************************************)
s_batchSize == 100
maxChunksText == 100
LOCALDOCS_VERSION == 2
LOCALDOCS_MIN_VER == 1

(***************************************************************************)
(* The file system the engine watches, and the names users pass in.        *)
(***************************************************************************)
FolderPaths == {"/a"}
CollectionNames == {"C1", "C2"}
FilePaths == {"/a/a.txt", "/a/p.pdf"}
ChunkSizes == {10, 25}

FolderOf(f) == "/a"

\* DocumentInfo::isPdf: the suffix of the file name
isPdf(f) == f = "/a/p.pdf"

Stream(ws, trail) == [words |-> ws, trail |-> trail]
EmptyStream == Stream(<<>>, FALSE)

\* Content of a plain-text file as of a modification time: its words and
\* whether whitespace follows the last word.
TextOf(f, mtime) ==
    IF mtime = 1 THEN Stream(<<"alpha", "beta", "gamma", "delta">>, FALSE)
                 ELSE Stream(<<"alpha", "beta">>, TRUE)

\* Pages of a PDF as of a modification time.
PagesOf(f, mtime) ==
    IF mtime = 1 THEN << Stream(<<"one", "two">>, FALSE), Stream(<<"three">>, FALSE) >>
                 ELSE << >>

Min(S) == CHOOSE x \in S : \A y \in S : x <= y
Max(S) == CHOOSE x \in S : \A y \in S : x >= y
\* Database::Database(int chunkSize): the chunk size the settings pass in
InitialChunkSize == Min(ChunkSizes)

(***************************************************************************)
(* The text stream (QTextStream).  A position is the number of tokens      *)
(* consumed; trailing whitespace is one more token, read as an empty word. *)
(***************************************************************************)
StreamSize(st) == Len(st.words) + (IF st.trail THEN 1 ELSE 0)
atEnd(st, pos) == pos >= StreamSize(st)
ReadWord(st, pos) == IF pos < Len(st.words) THEN st.words[pos + 1] ELSE ""

(***************************************************************************)
(* Database::chunkStream, the splitting loop: the chunks (each the list of *)
(* its words, joined by single spaces in the code) and the final position. *)
(***************************************************************************)
RECURSIVE chunkLoop(_, _, _, _, _, _, _)
chunkLoop(st, pos, words, charCount, out, maxChunks, chunkSize) ==
    IF atEnd(st, pos) THEN [chunks |-> out, pos |-> pos]
    ELSE LET word == ReadWord(st, pos)
             pos2 == pos + 1
             cc2 == charCount + Len(word)
             words2 == IF word # "" THEN Append(words, word) ELSE words
         IN  IF cc2 + Len(words2) - 1 >= chunkSize \/ atEnd(st, pos2)
             THEN LET out2 == Append(out, words2)
                  IN  IF maxChunks > 0 /\ Len(out2) = maxChunks
                      THEN [chunks |-> out2, pos |-> pos2]
                      ELSE chunkLoop(st, pos2, <<>>, 0, out2, maxChunks, chunkSize)
             ELSE chunkLoop(st, pos2, words2, cc2, out, maxChunks, chunkSize)

splitStream(st, pos, maxChunks, chunkSize) ==
    chunkLoop(st, pos, <<>>, 0, <<>>, maxChunks, chunkSize)

(***************************************************************************)
(* The relational store.  A table is the set of its rows; seq is the       *)
(* sqlite_sequence counter of chunks.chunk_id (autoincrement).             *)
(***************************************************************************)
EmptyDb ==
    [folders |-> {}, documents |-> {}, chunks |-> {}, chunks_fts |-> {},
     collections |-> {}, seq |-> 0]

\* integer primary key without autoincrement: one more than the largest rowid
NextRowId(rows) == IF rows = {} THEN 1 ELSE Max({r.id : r \in rows}) + 1

\* addChunk.  fault names the statement that fails: "chunk" the insert into
\* chunks, "rowid" the select of last_insert_rowid, "fts" the insert into
\* chunks_fts, "none" nothing.  *chunk_id keeps the caller's 0 until set.
addChunk(db, document_id, chunk_text, page, fault) ==
    IF fault = "chunk" THEN [db |-> db, ok |-> FALSE, chunk_id |-> 0]
    ELSE LET id == db.seq + 1
             row == [chunk_id |-> id, document_id |-> document_id,
                     chunk_text |-> chunk_text, page |-> page, has_embedding |-> FALSE]
             fts == [chunk_id |-> id, document_id |-> document_id,
                     chunk_text |-> chunk_text, page |-> page]
             db1 == [db EXCEPT !.chunks = @ \cup {row}, !.seq = id]
         IN  IF fault = "rowid" THEN [db |-> db1, ok |-> FALSE, chunk_id |-> 0]
             ELSE IF fault = "fts" THEN [db |-> db1, ok |-> FALSE, chunk_id |-> id]
             ELSE [db |-> [db1 EXCEPT !.chunks_fts = @ \cup {fts}],
                   ok |-> TRUE, chunk_id |-> id]

\* removeChunksByDocumentId, both deletes done
removeChunksByDocumentId(db, document_id) ==
    [db EXCEPT !.chunks = {r \in @ : r.document_id # document_id},
               !.chunks_fts = {r \in @ : r.document_id # document_id}]

\* removeChunksByDocumentId when its second statement fails: only chunks is cut
removeChunksFtsFailed(db, document_id) ==
    [db EXCEPT !.chunks = {r \in @ : r.document_id # document_id}]

\* getChunksByDocumentId with the WHERE clause on the wrong column
getChunksByChunkId(db, document_id) ==
    {r.chunk_id : r \in {c \in db.chunks : c.chunk_id = document_id}}

\* getChunksByDocumentId / SELECT_CHUNKS_BY_DOCUMENT_SQL
getChunksByDocumentId(db, document_id) ==
    {r.chunk_id : r \in {c \in db.chunks : c.document_id = document_id}}

\* updateChunkHasEmbedding
updateChunkHasEmbedding(db, chunk_id) ==
    [db EXCEPT !.chunks = {IF r.chunk_id = chunk_id
                           THEN [r EXCEPT !.has_embedding = TRUE] ELSE r : r \in @}]

\* selectFolder by path: the id, or the caller's -1
selectFolder(db, path) ==
    LET hit == {r \in db.folders : r.folder_path = path}
    IN  IF hit = {} THEN -1 ELSE (CHOOSE r \in hit : TRUE).id

\* selectDocument that never reads document_time from the row
selectDocumentNoTime(db, path) ==
    LET hit == {r \in db.documents : r.document_path = path}
    IN  IF hit = {} THEN [id |-> -1, document_time |-> -1]
        ELSE [id |-> (CHOOSE r \in hit : TRUE).id, document_time |-> -1]

\* selectDocument by path: the row, or the caller's (-1, -1)
selectDocument(db, path) ==
    LET hit == {r \in db.documents : r.document_path = path}
    IN  IF hit = {} THEN [id |-> -1, document_time |-> -1]
        ELSE LET r == CHOOSE r \in hit : TRUE
             IN  [id |-> r.id, document_time |-> r.document_time]

\* selectCollectionsFromFolder: the rows of collections naming the folder
selectCollectionsFromFolder(db, folder_id) ==
    {r \in db.collections : r.folder_id = folder_id}

\* selectFoldersFromCollection: ids of the folders joined to the collection
selectFoldersFromCollection(db, collection) ==
    {f.id : f \in {g \in db.folders :
        \E c \in db.collections : c.collection_name = collection /\ c.folder_id = g.id}}

\* removeCollection / DELETE_COLLECTION_SQL: the row of this name and folder
removeCollection(db, collection_name, folder_id) ==
    [db EXCEPT !.collections =
        {r \in @ : ~(r.collection_name = collection_name /\ r.folder_id = folder_id)}]

\* selectDocuments: ids of the documents of the folder
selectDocuments(db, folder_id) ==
    {d.id : d \in {x \in db.documents : x.folder_id = folder_id}}

\* removeDocument / DELETE_DOCUMENTS_SQL
removeDocument(db, document_id) ==
    [db EXCEPT !.documents = {r \in @ : r.id # document_id}]

\* removeFolderFromDB / DELETE_FOLDERS_SQL
removeFolderFromDB(db, folder_id) ==
    [db EXCEPT !.folders = {r \in @ : r.id # folder_id}]

\* selectAllUncompletedChunks / SELECT_UNCOMPLETED_CHUNKS_SQL
selectAllUncompletedChunks(db, folder_id) ==
    {c \in db.chunks : ~c.has_embedding /\
        \E d \in db.documents : d.id = c.document_id /\ d.folder_id = folder_id}

(***************************************************************************)
(* Embedding coordinator.  A worker state w carries the store, the scan    *)
(* queue, m_chunkList (chunkList), the batches handed to the embedder and  *)
(* not yet answered (inflight) and the tick's chunksToRemove (toRemove).   *)
(***************************************************************************)
EmbeddingChunk(folder_id, chunk_id, chunk) ==
    [folder_id |-> folder_id, chunk_id |-> chunk_id, chunk |-> chunk]

(***************************************************************************)
(* m_collectionMap: folder id -> CollectionItem, of which the two counters *)
(* of embeddings are kept.  An engine state carries the map and `asserted`,*)
(* which says that the Q_ASSERT of guiCollectionItem has failed; where the *)
(* assertion is compiled out, value() gives a default-constructed item,    *)
(* whose folder_id is the id of no folder, so that the item stored back    *)
(* changes the item of no folder.                                          *)
(***************************************************************************)
CollectionItem(current, total) ==
    [currentEmbeddingsToIndex |-> current, totalEmbeddingsToIndex |-> total]

addGuiCollectionItem(map, folder_id, item) ==
    [k \in DOMAIN map \cup {folder_id} |-> IF k = folder_id THEN item ELSE map[k]]

removeGuiFolderById(map, folder_id) ==
    [k \in DOMAIN map \ {folder_id} |-> map[k]]

\* guiCollectionListUpdated: the rows of selectAllFromCollections, in order
RECURSIVE guiCollectionListUpdated(_, _, _)
guiCollectionListUpdated(map, collectionList, i) ==
    IF i > Len(collectionList) THEN map
    ELSE guiCollectionListUpdated(
            addGuiCollectionItem(map, collectionList[i].folder_id, CollectionItem(0, 0)),
            collectionList, i + 1)

\* item = guiCollectionItem(folder_id); the counters are set;
\* updateGuiForCollectionItem(item)
updateGuiForCollectionItem(e, folder_id, current, total) ==
    IF folder_id \in DOMAIN e.m_collectionMap
    THEN [e EXCEPT !.m_collectionMap[folder_id] = CollectionItem(current, total)]
    ELSE [e EXCEPT !.asserted = TRUE]

\* guiCollectionItem followed by updateGuiForCollectionItem where the code
\* sets a field other than the two counters
guiCollectionItem(e, folder_id) ==
    IF folder_id \in DOMAIN e.m_collectionMap THEN e ELSE [e EXCEPT !.asserted = TRUE]

\* the counters go up by dCurrent and dTotal
addToItem(e, folder_id, dCurrent, dTotal) ==
    IF folder_id \in DOMAIN e.m_collectionMap
    THEN updateGuiForCollectionItem(e, folder_id,
            e.m_collectionMap[folder_id].currentEmbeddingsToIndex + dCurrent,
            e.m_collectionMap[folder_id].totalEmbeddingsToIndex + dTotal)
    ELSE [e EXCEPT !.asserted = TRUE]

\* Database::updateCollectionStatistics: the item of every row of collections
\* is looked up and stored back with the counts of documents, words, tokens
updateCollectionStatistics(e) ==
    IF \A c \in e.db.collections : c.folder_id \in DOMAIN e.m_collectionMap THEN e
    ELSE [e EXCEPT !.asserted = TRUE]

\* generateAsyncEmbeddings: an empty list asks the embedder for nothing
generateAsyncEmbeddings(inflight, batch) ==
    IF batch = <<>> THEN inflight ELSE Append(inflight, batch)

sendChunkList(w) ==
    [w EXCEPT !.inflight = generateAsyncEmbeddings(@, w.chunkList),
              !.chunkList = <<>>]

appendChunk(w, chunk) ==
    LET w1 == [w EXCEPT !.chunkList = Append(@, chunk)]
    IN  IF Len(w1.chunkList) >= s_batchSize THEN sendChunkList(w1) ELSE w1

scheduleNext(w, folder_id, countForFolder) ==
    LET w1 == guiCollectionItem(w, folder_id)
    IN  IF countForFolder = 0 THEN sendChunkList(w1) ELSE w1

\* Database::chunkStream, the body run for each chunk the splitting loop
\* emits: addChunk's result is only logged, the chunk is appended either way.
RECURSIVE insertChunks(_, _, _, _, _, _, _)
insertChunks(w, texts, i, folder_id, document_id, page, fault) ==
    IF i > Len(texts) THEN w
    ELSE LET r == addChunk(w.db, document_id, texts[i], page,
                           IF fault.at = i THEN fault.kind ELSE "none")
             w1 == appendChunk([w EXCEPT !.db = r.db],
                               EmbeddingChunk(folder_id, r.chunk_id, texts[i]))
         IN  insertChunks(w1, texts, i + 1, folder_id, document_id, page, fault)

chunkStream(w, st, pos, folder_id, document_id, page, maxChunks, chunkSize, fault) ==
    LET split == splitStream(st, pos, maxChunks, chunkSize)
        chunks == Len(split.chunks)
        w1 == insertChunks(guiCollectionItem(w, folder_id), split.chunks, 1,
                           folder_id, document_id, page, fault)
    IN  [w |-> IF chunks # 0 THEN addToItem(w1, folder_id, 0, chunks) ELSE w1,
         pos |-> split.pos]

(***************************************************************************)
(* Scan queue: a map from folder id to a non-empty list of DocumentInfo.   *)
(***************************************************************************)
DocumentInfo(folder, doc) ==
    [folder |-> folder, doc |-> doc, currentlyProcessing |-> FALSE,
     currentPage |-> 0, currentPosition |-> 0]

EmptyQueue == [k \in {} |-> <<>>]

countOfDocuments(queue, folder_id) ==
    IF folder_id \in DOMAIN queue THEN Len(queue[folder_id]) ELSE 0

\* dequeueDocument that reads the head of the first queue and leaves it there
dequeuePeeksOnly(queue) ==
    [info |-> Head(queue[Min(DOMAIN queue)]), queue |-> queue]

\* dequeueDocument that draws from the last key of the map
dequeueFromLastKey(queue) ==
    LET lastKey == CHOOSE k \in DOMAIN queue : \A j \in DOMAIN queue : j <= k
        rest == Tail(queue[lastKey])
    IN  [info |-> Head(queue[lastKey]),
         queue |-> IF rest = <<>>
                   THEN [k \in DOMAIN queue \ {lastKey} |-> queue[k]]
                   ELSE [queue EXCEPT ![lastKey] = rest]]

dequeueDocument(queue) ==
    LET firstKey == Min(DOMAIN queue)
        rest == Tail(queue[firstKey])
    IN  [info |-> Head(queue[firstKey]),
         queue |-> IF rest = <<>>
                   THEN [k \in DOMAIN queue \ {firstKey} |-> queue[k]]
                   ELSE [queue EXCEPT ![firstKey] = rest]]

\* enqueueDocumentInternal that always appends
enqueueAtTheBack(queue, info, prepend) ==
    LET key == info.folder
        old == IF key \in DOMAIN queue THEN queue[key] ELSE <<>>
    IN  [k \in DOMAIN queue \cup {key} |-> IF k = key THEN Append(old, info) ELSE queue[k]]

enqueueDocumentInternal(queue, info, prepend) ==
    LET key == info.folder
        old == IF key \in DOMAIN queue THEN queue[key] ELSE <<>>
        new == IF prepend THEN <<info>> \o old ELSE Append(old, info)
    IN  [k \in DOMAIN queue \cup {key} |-> IF k = key THEN new ELSE queue[k]]

removeFolderFromDocumentQueue(queue, folder_id) ==
    [k \in DOMAIN queue \ {folder_id} |-> queue[k]]

(***************************************************************************)
(* Database::scanQueue: one pass over the document at the head of the      *)
(* queue.  disk gives each file's existence and modification time.  err    *)
(* names the statement that fails in this pass ("none": nothing), fault    *)
(* the chunk insert that fails, ub the outcome of the division by a zero   *)
(* page count.  The result carries the return value (ret), what the pass   *)
(* did (res) and the worker state after it.                                *)
(***************************************************************************)
ScanErrors == {"none", "select", "chunkids", "remove", "update", "add", "load", "open", "seek"}
InsertFaults == {"chunk", "rowid", "fts"}
DivideByZero == {"trap", "value"}

scanQueue(w, disk, chunkSize, err, fault, ub) ==
    LET d == dequeueDocument(w.queue)
        info == d.info
        w1 == [w EXCEPT !.queue = d.queue]
        countForFolder == countOfDocuments(w1.queue, info.folder)
        folder_id == info.folder
        file == disk[info.doc]
        document_time == file.mtime
        existing == selectDocument(w1.db, info.doc)
        existing_id == existing.id
        currentlyProcessing == info.currentlyProcessing
        known == existing_id # -1 /\ ~currentlyProcessing
        Failed(ww) == [ret |-> FALSE, res |-> "error", w |-> scheduleNext(ww, folder_id, countForFolder)]
        Requeue(ww, next) ==
            [ret |-> TRUE, res |-> "requeued",
             w |-> scheduleNext(
                     [ww EXCEPT !.queue = enqueueDocumentInternal(@, next, TRUE)],
                     folder_id, countForFolder + 1)]
        Finished(ww) == [ret |-> TRUE, res |-> "done", w |-> scheduleNext(ww, folder_id, countForFolder)]
        \* after the stale chunks are collected and removed
        w2 == IF known
              THEN updateCollectionStatistics(
                     [w1 EXCEPT !.toRemove = @ \cup getChunksByDocumentId(w1.db, existing_id),
                                !.db = removeChunksByDocumentId(@, existing_id)])
              ELSE w1
        \* after the document row is updated or added
        document_id == IF currentlyProcessing \/ existing_id # -1 THEN existing_id
                       ELSE NextRowId(w2.db.documents)
        w3 == IF currentlyProcessing THEN w2
              ELSE IF existing_id # -1
              THEN [w2 EXCEPT !.db.documents =
                      {IF r.id = existing_id THEN [r EXCEPT !.document_time = document_time]
                       ELSE r : r \in @}]
              ELSE guiCollectionItem(
                     [w2 EXCEPT !.db.documents = @ \cup
                        {[id |-> document_id, folder_id |-> folder_id,
                          document_time |-> document_time, document_path |-> info.doc]}],
                     folder_id)
        Pdf ==
            LET pages == PagesOf(info.doc, file.mtime)
                pageCount == Len(pages)
                pageIndex == info.currentPage
                text == IF pageIndex + 1 \in 1..pageCount THEN pages[pageIndex + 1]
                        ELSE EmptyStream
                cs == chunkStream(w3, text, 0, folder_id, document_id, pageIndex + 1,
                                  0, chunkSize, fault)
                w4 == guiCollectionItem(cs.w, folder_id)
            IN  IF err = "load" THEN Failed(w3)
                ELSE IF pageCount = 0 /\ ub = "trap"
                THEN [ret |-> FALSE, res |-> "trap", w |-> w3]
                ELSE IF info.currentPage < pageCount
                THEN Requeue(w4, [info EXCEPT !.currentPage = @ + 1,
                                                !.currentlyProcessing = TRUE])
                ELSE Finished(w4)
        Text ==
            LET st == TextOf(info.doc, file.mtime)
                bytes == StreamSize(st)
                byteIndex == info.currentPosition
                cs == chunkStream(w3, st, byteIndex, folder_id, document_id, -1,
                                  maxChunksText, chunkSize, fault)
                w4 == guiCollectionItem(cs.w, folder_id)
            IN  IF err \in {"open", "seek"} THEN Failed(w3)
                ELSE IF info.currentPosition < bytes
                THEN Requeue(w4, [info EXCEPT !.currentPosition = cs.pos,
                                                !.currentlyProcessing = TRUE])
                ELSE Finished(w4)
    IN  IF ~file.exists
        THEN [ret |-> TRUE, res |-> "gone", w |-> scheduleNext(w1, folder_id, countForFolder)]
        ELSE IF err = "select" THEN Failed(w1)
        ELSE IF known /\ document_time = existing.document_time
        THEN [ret |-> TRUE, res |-> "uptodate", w |-> scheduleNext(w1, folder_id, countForFolder)]
        ELSE IF known /\ err = "chunkids" THEN Failed(w1)
        ELSE IF known /\ err = "remove"
        THEN Failed([w1 EXCEPT !.toRemove = @ \cup getChunksByDocumentId(w1.db, existing_id),
                               !.db = removeChunksFtsFailed(@, existing_id)])
        ELSE IF ~currentlyProcessing /\ existing_id # -1 /\ err = "update" THEN Failed(w2)
        ELSE IF ~currentlyProcessing /\ existing_id = -1 /\ err = "add" THEN Failed(w2)
        ELSE IF isPdf(info.doc) THEN Pdf ELSE Text

(***************************************************************************)
(* Database::handleEmbeddingsGenerated: failed is the set of positions of  *)
(* the batch whose Embeddings::add fails.  s carries the store and the     *)
(* vector index (embeddings: its keys).                                    *)
(***************************************************************************)
RECURSIVE applyEmbeddings(_, _, _, _)
applyEmbeddings(s, batch, i, failed) ==
    IF i > Len(batch) THEN s
    ELSE LET e == batch[i]
             s1 == IF i \in failed THEN s
                   ELSE [s EXCEPT !.embeddings = @ \cup {e.chunk_id},
                                  !.db = updateChunkHasEmbedding(@, e.chunk_id)]
         IN  applyEmbeddings(s1, batch, i + 1, failed)

\* handleEmbeddingsGenerated that marks the chunk without looking at the result
\* of Embeddings::add
handleEmbeddingsUnchecked(s, batch, failed) ==
    LET s1 == IF batch = <<>> THEN s ELSE applyEmbeddings(s, batch, 1, failed)
        ids == {batch[i].chunk_id : i \in 1..Len(batch)}
        s2 == [s1 EXCEPT !.db.chunks = {IF r.chunk_id \in ids
                                  THEN [r EXCEPT !.has_embedding = TRUE] ELSE r : r \in @}]
    IN  IF batch = <<>> THEN s
        ELSE addToItem(s2, batch[Len(batch)].folder_id, Len(batch), 0)

handleEmbeddingsGenerated(s, batch, failed) ==
    IF batch = <<>> THEN s
    ELSE addToItem(applyEmbeddings(s, batch, 1, failed),
                   batch[Len(batch)].folder_id, Len(batch), 0)

(***************************************************************************)
(* Folder lifecycle.  An engine state e carries the store (db), the scan   *)
(* queue, m_chunkList, the batches in flight, the vector index keys        *)
(* (embeddings) and the watched paths.                                     *)
(***************************************************************************)
FileOrder == << "/a/a.txt", "/a/p.pdf" >>
FolderOrder == << "/a" >>
CollectionOrder == << "C1", "C2" >>

\* a set of integers as an ascending list
RECURSIVE Ascending(_)
Ascending(S) == IF S = {} THEN <<>> ELSE <<Min(S)>> \o Ascending(S \ {Min(S)})

\* QDirIterator over the folder: the readable files with a known suffix
RECURSIVE filesIn(_, _, _)
filesIn(disk, folder_path, i) ==
    IF i > Len(FileOrder) THEN <<>>
    ELSE (IF FolderOf(FileOrder[i]) = folder_path /\ disk[FileOrder[i]].exists
          THEN << FileOrder[i] >> ELSE <<>>) \o filesIn(disk, folder_path, i + 1)

RECURSIVE enqueueDocuments(_, _, _, _)
enqueueDocuments(queue, folder_id, files, i) ==
    IF i > Len(files) THEN queue
    ELSE enqueueDocuments(
            enqueueDocumentInternal(queue, DocumentInfo(folder_id, files[i]), FALSE),
            folder_id, files, i + 1)

scanDocuments(e, disk, folder_id, folder_path) ==
    LET infos == filesIn(disk, folder_path, 1)
    IN  IF infos = <<>> THEN e
        ELSE guiCollectionItem(
                [guiCollectionItem(e, folder_id)
                    EXCEPT !.queue = enqueueDocuments(@, folder_id, infos, 1)],
                folder_id)

\* checkAndAddFolderToDB: the folder id (-1: refused) and the store after it
checkAndAddFolderToDB(db, dirs, path) ==
    IF ~dirs[path] THEN [folder_id |-> -1, db |-> db]
    ELSE LET found == selectFolder(db, path)
             id == NextRowId(db.folders)
         IN  IF found # -1 THEN [folder_id |-> found, db |-> db]
             ELSE [folder_id |-> id,
                   db |-> [db EXCEPT !.folders = @ \cup {[id |-> id, folder_path |-> path]}]]

\* Database::addFolder; modelEmpty: m_embLLM->model() is the empty string
addFolder(e, disk, dirs, collection, path, modelEmpty) ==
    LET c == checkAndAddFolderToDB(e.db, dirs, path)
        folder_id == c.folder_id
        folders == selectFoldersFromCollection(c.db, collection)
        e1 == [e EXCEPT !.db = c.db]
        e2 == IF folder_id \in folders THEN e1
              ELSE [e1 EXCEPT !.db.collections = @ \cup
                      {[collection_name |-> collection, folder_id |-> folder_id,
                        force_indexing |-> FALSE]},
                    !.m_collectionMap =
                        addGuiCollectionItem(@, folder_id, CollectionItem(0, 0))]
    IN  IF folder_id = -1 THEN e
        ELSE IF modelEmpty THEN e1
        ELSE scanDocuments([e2 EXCEPT !.watched = @ \cup {path}], disk, folder_id, path)

\* Database::transaction, commit and rollback as calls: an engine state
\* carries tx, the calls of the handler so far, in order
transaction(e) == [e EXCEPT !.tx = Append(@, "transaction")]

\* a commit() that is left out
commitLeftOut(e) == e

commit(e) == [e EXCEPT !.tx = Append(@, "commit")]

rollbackCalled(e) == [e EXCEPT !.tx = Append(@, "rollback")]

\* Database::removeFolderInternal.  err: "selectCollections" (the first select
\* fails), "removeCollection" (the delete of the association fails), "late" (a
\* statement after the queue was dropped fails), "none".
RemoveErrors == {"none", "selectCollections", "removeCollection", "late"}

\* the documents of the folder, removed one after the other: their chunk ids
\* are collected (getChunksByDocumentId), then their chunks and rows deleted
RECURSIVE removeDocuments(_, _)
removeDocuments(s, documentIds) ==
    IF documentIds = {} THEN s
    ELSE LET document_id == Min(documentIds)
         IN  removeDocuments(
                [chunksToRemove |-> s.chunksToRemove
                                      \cup getChunksByDocumentId(s.db, document_id),
                 db |-> removeDocument(removeChunksByDocumentId(s.db, document_id),
                                       document_id)],
                documentIds \ {document_id})

\* removeFolderInternal with the loop of m_embeddings->remove ahead of
\* removeFolderFromDB, the last statement that can fail
removeFolderRemovesEarly(e, collection, folder_id, path, err) ==
    LET collections == selectCollectionsFromFolder(e.db, folder_id)
        db1 == removeCollection(e.db, collection, folder_id)
        queue1 == removeFolderFromDocumentQueue(e.queue, folder_id)
        gone == removeDocuments([chunksToRemove |-> {}, db |-> db1],
                                selectDocuments(db1, folder_id))
        t == transaction(e)
    IN  IF err = "selectCollections" THEN [res |-> "failed", e |-> e]
        ELSE IF err = "removeCollection" THEN [res |-> "rollback", e |-> rollbackCalled(t)]
        ELSE IF Cardinality(collections) > 1
        THEN [res |-> "association", e |-> commit([t EXCEPT !.db = db1])]
        ELSE IF err = "late"
        THEN [res |-> "rollback",
              e |-> rollbackCalled([t EXCEPT !.queue = queue1,
                              !.embeddings = @ \ gone.chunksToRemove,
                              !.m_collectionMap =
                                  IF folder_id \in DOMAIN e.queue
                                  THEN removeGuiFolderById(@, folder_id) ELSE @])]
        ELSE [res |-> "all",
              e |-> commit([t EXCEPT !.db = removeFolderFromDB(gone.db, folder_id),
                              !.queue = queue1,
                              !.embeddings = @ \ gone.chunksToRemove,
                              !.m_collectionMap = removeGuiFolderById(@, folder_id),
                              !.watched = @ \ {path}])]

\* removeFolderInternal that leaves the vector index as it is
removeFolderKeepsVectors(e, collection, folder_id, path, err) ==
    LET collections == selectCollectionsFromFolder(e.db, folder_id)
        db1 == removeCollection(e.db, collection, folder_id)
        queue1 == removeFolderFromDocumentQueue(e.queue, folder_id)
        gone == removeDocuments([chunksToRemove |-> {}, db |-> db1],
                                selectDocuments(db1, folder_id))
        t == transaction(e)
    IN  IF err = "selectCollections" THEN [res |-> "failed", e |-> e]
        ELSE IF err = "removeCollection" THEN [res |-> "rollback", e |-> rollbackCalled(t)]
        ELSE IF Cardinality(collections) > 1
        THEN [res |-> "association", e |-> commit([t EXCEPT !.db = db1])]
        ELSE IF err = "late"
        THEN [res |-> "rollback",
              e |-> rollbackCalled([t EXCEPT !.queue = queue1,
                              !.m_collectionMap =
                                  IF folder_id \in DOMAIN e.queue
                                  THEN removeGuiFolderById(@, folder_id) ELSE @])]
        ELSE [res |-> "all",
              e |-> commit([t EXCEPT !.db = removeFolderFromDB(gone.db, folder_id),
                              !.queue = queue1,
                              !.m_collectionMap = removeGuiFolderById(@, folder_id),
                              !.watched = @ \ {path}])]

removeFolderInternal(e, collection, folder_id, path, err) ==
    LET collections == selectCollectionsFromFolder(e.db, folder_id)
        db1 == removeCollection(e.db, collection, folder_id)
        queue1 == removeFolderFromDocumentQueue(e.queue, folder_id)
        documentIds == selectDocuments(db1, folder_id)
        gone == removeDocuments([chunksToRemove |-> {}, db |-> db1], documentIds)
        chunksToRemove == gone.chunksToRemove
        db2 == removeFolderFromDB(gone.db, folder_id)
        t == transaction(e)
    IN  IF err = "selectCollections" THEN [res |-> "failed", e |-> e]
        ELSE IF err = "removeCollection" THEN [res |-> "rollback", e |-> rollbackCalled(t)]
        ELSE IF Cardinality(collections) > 1
        THEN [res |-> "association", e |-> commit([t EXCEPT !.db = db1])]
        ELSE IF err = "late"
        THEN [res |-> "rollback",
              e |-> rollbackCalled([t EXCEPT !.queue = queue1,
                              !.m_collectionMap =
                                  IF folder_id \in DOMAIN e.queue
                                  THEN removeGuiFolderById(@, folder_id) ELSE @])]
        ELSE [res |-> "all",
              e |-> commit([t EXCEPT !.db = db2, !.queue = queue1,
                              !.embeddings = @ \ chunksToRemove,
                              !.m_collectionMap = removeGuiFolderById(@, folder_id),
                              !.watched = @ \ {path}])]

\* Database::removeFolder
removeFolder(e, collection, path, err) ==
    LET folder_id == selectFolder(e.db, path)
    IN  IF folder_id = -1
        THEN [res |-> "nofolder", e |-> [e EXCEPT !.watched = @ \ {path}]]
        ELSE removeFolderInternal(e, collection, folder_id, path, err)

\* selectAllFromCollections (current version): collections joined with
\* folders, ordered by collection name, then folder path
RECURSIVE selectAllFromCollections(_, _)
selectAllFromCollections(db, k) ==
    IF k >= Len(CollectionOrder) * Len(FolderOrder) THEN <<>>
    ELSE LET name == CollectionOrder[(k \div Len(FolderOrder)) + 1]
             path == FolderOrder[(k % Len(FolderOrder)) + 1]
             rows == {c \in db.collections : c.collection_name = name /\
                        \E f \in db.folders : f.id = c.folder_id /\ f.folder_path = path}
         IN  (IF rows = {} THEN <<>>
              ELSE LET c == CHOOSE c \in rows : TRUE
                   IN  << [collection |-> name, folder_path |-> path,
                           folder_id |-> c.folder_id, forceIndexing |-> c.force_indexing] >>)
             \o selectAllFromCollections(db, k + 1)

\* Database::cleanDB.  err = "documents": a delete of the second pass fails and
\* that pass is rolled back.
RECURSIVE cleanFolders(_, _, _, _)
cleanFolders(e, dirs, items, i) ==
    IF i > Len(items) THEN e
    ELSE cleanFolders(
            IF dirs[items[i].folder_path] THEN e
            ELSE removeFolderInternal(e, items[i].collection, items[i].folder_id,
                                      items[i].folder_path, "none").e,
            dirs, items, i + 1)

CleanErrors == {"none", "documents"}

\* cleanDB without its first pass: the folders are not looked at
cleanDocumentsOnly(e, disk, dirs, err) ==
    LET missing == {d.id : d \in {x \in e.db.documents : ~disk[x.document_path].exists}}
        gone == removeDocuments([chunksToRemove |-> {}, db |-> e.db], missing)
        t == transaction(e)
    IN  updateCollectionStatistics(
            IF err = "documents" /\ missing # {} THEN rollbackCalled(t)
            ELSE commit([t EXCEPT !.db = gone.db, !.embeddings = @ \ gone.chunksToRemove]))

cleanDB(e, disk, dirs, err) ==
    LET e1 == cleanFolders(e, dirs, selectAllFromCollections(e.db, 0), 1)
        missing == {d.id : d \in {x \in e1.db.documents : ~disk[x.document_path].exists}}
        gone == removeDocuments([chunksToRemove |-> {}, db |-> e1.db], missing)
        t == transaction(e1)
    IN  updateCollectionStatistics(
            IF err = "documents" /\ missing # {} THEN rollbackCalled(t)
            ELSE commit([t EXCEPT !.db = gone.db, !.embeddings = @ \ gone.chunksToRemove]))

\* Database::directoryChanged
directoryChanged(e, disk, dirs, path, err) ==
    LET folder_id == selectFolder(e.db, path)
    IN  IF folder_id = -1 THEN [e EXCEPT !.watched = @ \ {path}]
        ELSE scanDocuments(cleanDB(e, disk, dirs, err), disk, folder_id, path)

\* Database::scheduleUncompletedEmbeddings
RECURSIVE sendBatches(_, _)
sendBatches(inflight, chunks) ==
    IF chunks = <<>> THEN inflight
    ELSE sendBatches(
            generateAsyncEmbeddings(inflight,
                SubSeq(chunks, 1, IF Len(chunks) < s_batchSize THEN Len(chunks) ELSE s_batchSize)),
            IF Len(chunks) <= s_batchSize THEN <<>>
            ELSE SubSeq(chunks, s_batchSize + 1, Len(chunks)))

\* scheduleUncompletedEmbeddings that returns before it sends a batch
scheduleNoEmbeddings(e, folder_id) == e

scheduleUncompletedEmbeddings(e, folder_id) ==
    LET rows == selectAllUncompletedChunks(e.db, folder_id)
        ids == Ascending({r.chunk_id : r \in rows})
        chunks == [i \in 1..Len(ids) |->
                     LET r == CHOOSE r \in rows : r.chunk_id = ids[i]
                     IN  EmbeddingChunk(folder_id, r.chunk_id, r.chunk_text)]
        total == Cardinality({c \in e.db.chunks :
                    \E d \in e.db.documents :
                        d.id = c.document_id /\ d.folder_id = folder_id})
    IN  IF rows = {} THEN e
        ELSE [updateGuiForCollectionItem(e, folder_id, total - Len(chunks), total)
                EXCEPT !.inflight = sendBatches(@, chunks)]

\* addCurrentFolders without the test of forceIndexing
RECURSIVE addFoldersForcedToo(_, _, _, _, _, _)
addFoldersForcedToo(e, disk, dirs, items, i, modelEmpty) ==
    IF i > Len(items) THEN e
    ELSE addFoldersForcedToo(
            addFolder(scheduleUncompletedEmbeddings(e, items[i].folder_id),
                      disk, dirs, items[i].collection, items[i].folder_path, modelEmpty),
            disk, dirs, items, i + 1, modelEmpty)

\* Database::addCurrentFolders
RECURSIVE addFolders(_, _, _, _, _, _)
addFolders(e, disk, dirs, items, i, modelEmpty) ==
    IF i > Len(items) THEN e
    ELSE addFolders(
            IF items[i].forceIndexing THEN e
            ELSE addFolder(scheduleUncompletedEmbeddings(e, items[i].folder_id),
                           disk, dirs, items[i].collection, items[i].folder_path, modelEmpty),
            disk, dirs, items, i + 1, modelEmpty)

addCurrentFolders(e, disk, dirs, modelEmpty) ==
    LET collections == selectAllFromCollections(e.db, 0)
        e1 == [e EXCEPT !.m_collectionMap = guiCollectionListUpdated(@, collections, 1)]
    IN  updateCollectionStatistics(addFolders(e1, disk, dirs, collections, 1, modelEmpty))

\* Database::changeChunkSize, after m_chunkSize is set.  err = "delete": a
\* delete fails, the transaction is rolled back and the function returns.
ChangeErrors == {"none", "delete"}

changeChunkSize(e, disk, dirs, modelEmpty, err) ==
    LET documentIds == {d.id : d \in e.db.documents}
        gone == removeDocuments([chunksToRemove |-> {}, db |-> e.db], documentIds)
        t == transaction(e)
        e1 == commit([t EXCEPT !.db = gone.db, !.embeddings = @ \ gone.chunksToRemove])
    IN  IF err = "delete" /\ documentIds # {} THEN rollbackCalled(t)
        ELSE updateCollectionStatistics(addCurrentFolders(e1, disk, dirs, modelEmpty))

(***************************************************************************)
(* Retrieval.  A query text is given as the list of its tokens, the pieces *)
(* between runs of whitespace (QString::split without SkipEmptyParts: the  *)
(* empty text is one empty token, a leading blank gives an empty first     *)
(* token).                                                                 *)
(***************************************************************************)
QueryTexts ==
    { << "" >>, << "alpha" >>, << "alpha", "beta" >>, << "gamma", "delta" >>,
      << "", "alpha", "beta" >>, << "alpha", "beta", "-" >>, << "alpha", "-", "-" >>,
      << "-", "-", "-" >>, << "alpha", "beta", "gamma" >>, << "alpha", "alpha", "alpha" >>,
      << "alpha", "beta,", "gamma", "delta" >> }
DenseQueryTexts == { << "alpha", "beta" >>, << "alpha", "beta", "gamma" >> }
CollectionLists == { << "C1" >>, << "C1", "C2" >> }
RetrievalSizes == {1, 5}

\* QString::remove(punctuation) on one token
removePunctuation(token) ==
    CASE token = "-" -> ""
      [] token = "beta," -> "beta"
      [] OTHER -> token

\* generateGrams: the n-grams (each the list of its words, with the N it is
\* rendered with) of the text once punctuation is removed
generateGrams(input, N) ==
    LET cleaned == [i \in 1..Len(input) |-> removePunctuation(input[i])]
        words == SelectSeq(cleaned, LAMBDA w : w # "")
        n == Min({Len(words), N})
    IN  [i \in 1..(Len(words) - (n - 1)) |->
            [words |-> SubSeq(words, i, i + n - 1), N |-> n]]

\* chunks_fts is tokenized by trigrams: the word at index i of a chunk text
\* starts at this token position (words are joined by single spaces) ...
RECURSIVE tokenStart(_, _)
tokenStart(words, i) ==
    IF i = 1 THEN 0 ELSE tokenStart(words, i - 1) + Len(words[i - 1]) + 1
\* ... and its last trigram is at this one
tokenEnd(words, i) == tokenStart(words, i) + Len(words[i]) - 3

\* fts5 NEAR(p1 ... pn, N) on one chunk text: each phrase occurs, with at most
\* N tokens between the end of the first phrase and the start of the last.
\* No word of the files contains another, so a phrase occurs where its word is.
nearMatch(gram, chunk_text) ==
    \E at \in [1..Len(gram.words) -> 1..Len(chunk_text)] :
        /\ \A i \in 1..Len(gram.words) : chunk_text[at[i]] = gram.words[i]
        /\ Max({tokenStart(chunk_text, at[i]) : i \in 1..Len(gram.words)})
             - Min({tokenEnd(chunk_text, at[i]) : i \in 1..Len(gram.words)}) - 1 <= gram.N

\* an fts5 expression with an empty NEAR group does not parse
ftsSyntaxError(grams) == \E i \in 1..Len(grams) : grams[i].words = <<>>

\* the rows SELECT_NGRAM_SQL and SELECT_CHUNKS_SQL join to a chunk: one for
\* each row of collections, among the names supplied, that is attached to the
\* folder of the chunk's document
joinRows(db, chunkRows, collection_names) ==
    UNION {{[chunk_id |-> r.chunk_id, collection_name |-> c.collection_name] :
              c \in {x \in db.collections :
                 /\ \E i \in 1..Len(collection_names) : collection_names[i] = x.collection_name
                 /\ \E d \in db.documents : /\ d.id = r.document_id
                                            /\ d.folder_id = x.folder_id
                                            /\ \E f \in db.folders : f.id = d.folder_id}}
           : r \in chunkRows}

\* the n-gram query for one N: the rows it yields, before the limit
ngramRows(db, collection_names, grams) ==
    joinRows(db, {r \in db.chunks_fts :
                    \E i \in 1..Len(grams) : nearMatch(grams[i], r.chunk_text)},
             collection_names)

\* selectChunk by text: N from the number of tokens down to 3.  issued: the
\* n-grams sent to fts5 so far
RECURSIVE selectChunkByText(_, _, _, _, _)
selectChunkByText(db, collection_names, chunk_text, N, issued) ==
    IF N <= 2 THEN [ok |-> TRUE, rows |-> {}, issued |-> issued]
    ELSE LET text == generateGrams(chunk_text, N)
             sent == issued \cup {text[i] : i \in 1..Len(text)}
             rows == ngramRows(db, collection_names, text)
         IN  IF ftsSyntaxError(text) THEN [ok |-> FALSE, rows |-> {}, issued |-> sent]
             ELSE IF rows # {} THEN [ok |-> TRUE, rows |-> rows, issued |-> sent]
             ELSE selectChunkByText(db, collection_names, chunk_text, N - 1, sent)

\* selectChunk by ids
selectChunkByIds(db, collection_names, chunk_ids) ==
    joinRows(db, {r \in db.chunks : r.chunk_id \in chunk_ids}, collection_names)

NoRetrieval ==
    [collections |-> <<>>, text |-> <<>>, retrievalSize |-> 0, loaded |-> FALSE,
     res |-> "none", issued |-> {}, rows |-> {}, results |-> {}]

\* Database::retrieveFromDB.  loaded: m_embeddings->isLoaded(); embedded:
\* generateEmbeddings gave a vector; found: the ids Embeddings::search gave;
\* ub: what reading chunk_ids[0] of an empty list does (the process traps, or
\* some value is read).  rows: what the query yields before "limit".
retrieveFromDB(db, collections, text, retrievalSize, loaded, embedded, found, ub) ==
    LET base == [NoRetrieval EXCEPT !.collections = collections, !.text = text,
                                    !.retrievalSize = retrievalSize, !.loaded = loaded]
        sparse == selectChunkByText(db, collections, text, Len(text), {})
    IN  IF loaded
        THEN IF ~embedded THEN [base EXCEPT !.res = "noembedding"]
             ELSE IF found = {} /\ ub.trap THEN [base EXCEPT !.res = "trap"]
             ELSE [base EXCEPT !.res = "ok",
                               !.rows = selectChunkByIds(db, collections,
                                           IF found = {} THEN {ub.value} ELSE found)]
        ELSE IF ~sparse.ok THEN [base EXCEPT !.res = "error", !.issued = sparse.issued]
             ELSE [base EXCEPT !.res = "ok", !.issued = sparse.issued,
                               !.rows = sparse.rows]

(***************************************************************************)
(* Startup: Database::start with openLatestDb and initDb, Database::       *)
(* forceIndexing, and the end of the process.                              *)
(***************************************************************************)
\* what fails in start: nothing, QSqlDatabase::open, the select of the old
\* collections, a create table statement, Embeddings::load of an existing file
StartErrors == {"none", "open", "selectOld", "create", "load"}

\* selectAllFromCollections on an older version's file: every item is marked
\* forceIndexing
RECURSIVE selectAllFromOldCollections(_, _)
selectAllFromOldCollections(legacy, k) ==
    IF k >= Len(CollectionOrder) * Len(FolderOrder) THEN <<>>
    ELSE LET name == CollectionOrder[(k \div Len(FolderOrder)) + 1]
             path == FolderOrder[(k % Len(FolderOrder)) + 1]
         IN  (IF [collection_name |-> name, folder_path |-> path] \in legacy
              THEN << [collection |-> name, folder_path |-> path, forceIndexing |-> TRUE] >>
              ELSE <<>>)
             \o selectAllFromOldCollections(legacy, k + 1)

\* Database::openLatestDb, from dbVer downwards; open: the version m_db has
\* open.  openDatabase closes m_db, then opens the file if it exists.
RECURSIVE openLatestDb(_, _, _, _)
openLatestDb(files, dbVer, open, err) ==
    IF dbVer < LOCALDOCS_MIN_VER THEN [ok |-> TRUE, open |-> open, oldCollections |-> <<>>]
    ELSE IF files[dbVer].state = "absent" THEN openLatestDb(files, dbVer - 1, 0, err)
    ELSE IF err = "open" THEN [ok |-> FALSE, open |-> 0, oldCollections |-> <<>>]
    ELSE IF files[dbVer].state # "content" THEN openLatestDb(files, dbVer - 1, dbVer, err)
    ELSE IF dbVer = LOCALDOCS_VERSION
    THEN [ok |-> TRUE, open |-> dbVer, oldCollections |-> <<>>]
    ELSE IF err = "selectOld" THEN [ok |-> FALSE, open |-> dbVer, oldCollections |-> <<>>]
    ELSE [ok |-> TRUE, open |-> 0,
          oldCollections |-> selectAllFromOldCollections(files[dbVer].legacy, 0)]

\* Database::addForcedCollection for the items from i on; s: the store and
\* the conjunction of the results so far
RECURSIVE addForcedCollections(_, _, _, _, _)
addForcedCollections(s, dirs, items, i, modelEmpty) ==
    IF i > Len(items) THEN s
    ELSE LET c == checkAndAddFolderToDB(s.db, dirs, items[i].folder_path)
             s1 == IF c.folder_id = -1 THEN [s EXCEPT !.success = FALSE]
                   ELSE IF modelEmpty THEN [s EXCEPT !.db = c.db, !.success = FALSE]
                   ELSE [s EXCEPT !.db = [c.db EXCEPT !.collections = @ \cup
                                   {[collection_name |-> items[i].collection,
                                     folder_id |-> c.folder_id, force_indexing |-> TRUE]}],
                                  !.map = addGuiCollectionItem(@, c.folder_id,
                                                               CollectionItem(0, 0))]
         IN  addForcedCollections(s1, dirs, items, i + 1, modelEmpty)

\* Database::initDb.  stored: the tables of the current version's file
initDb(files, open, stored, map, oldCollections, dirs, modelEmpty, err) ==
    LET target == IF open = 0 THEN LOCALDOCS_VERSION ELSE open
        created == [files EXCEPT ![target].state = IF @ = "absent" THEN "empty" ELSE @]
        forced == addForcedCollections([db |-> EmptyDb, success |-> TRUE, map |-> map],
                                       dirs, oldCollections, 1, modelEmpty)
        began == transaction([tx |-> <<>>])
    IN  IF open = 0 /\ err = "open"
        THEN [ok |-> FALSE, open |-> 0, files |-> files, db |-> stored, map |-> map,
              tx |-> <<>>]
        ELSE IF files[target].state = "content"
        THEN [ok |-> TRUE, open |-> target, files |-> files, db |-> stored, map |-> map,
              tx |-> <<>>]
        ELSE IF err = "create"
        THEN [ok |-> FALSE, open |-> target, files |-> created, db |-> EmptyDb,
              map |-> map, tx |-> rollbackCalled(began).tx]
        ELSE IF ~forced.success
        THEN [ok |-> FALSE, open |-> target, files |-> created, db |-> EmptyDb,
              map |-> forced.map, tx |-> rollbackCalled(began).tx]
        ELSE [ok |-> TRUE, open |-> target,
              files |-> [created EXCEPT ![target].state = "content"], db |-> forced.db,
              map |-> forced.map, tx |-> commit(began).tx]

\* Database::start
start(e, files, disk, dirs, modelEmpty, err) ==
    LET o == openLatestDb(files, LOCALDOCS_VERSION, 0, err)
        i == initDb(files, o.open, e.db, e.m_collectionMap, o.oldCollections, dirs,
                    modelEmpty, err)
        opened == [e EXCEPT !.db = i.db, !.m_collectionMap = i.map, !.tx = @ \o i.tx]
    IN  IF ~o.ok
        THEN [res |-> "openFailed", valid |-> FALSE, open |-> o.open, files |-> files, e |-> e]
        ELSE IF ~i.ok
        THEN [res |-> "initFailed", valid |-> FALSE, open |-> i.open, files |-> i.files,
              e |-> opened]
        ELSE IF err = "load"
        THEN [res |-> "loadFailed", valid |-> FALSE, open |-> i.open, files |-> i.files,
              e |-> opened]
        ELSE [res |-> "ok", valid |-> TRUE, open |-> i.open, files |-> i.files,
              e |-> addCurrentFolders(opened, disk, dirs, modelEmpty)]

\* Database::forceIndexing.  err = "select" / "update": that statement fails
ForceErrors == {"none", "select", "update"}

RECURSIVE addFoldersOfCollection(_, _, _, _, _, _)
addFoldersOfCollection(e, disk, dirs, collection, folderIds, modelEmpty) ==
    IF folderIds = {} THEN e
    ELSE LET id == Min(folderIds)
             path == (CHOOSE f \in e.db.folders : f.id = id).folder_path
         IN  addFoldersOfCollection(
                addFolder(guiCollectionItem(e, id), disk, dirs, collection, path, modelEmpty),
                disk, dirs, collection, folderIds \ {id}, modelEmpty)

forceIndexing(e, disk, dirs, collection, modelEmpty, err) ==
    LET folders == selectFoldersFromCollection(e.db, collection)
        updated == [e EXCEPT !.db.collections =
                      {IF r.collection_name = collection
                       THEN [r EXCEPT !.force_indexing = FALSE] ELSE r : r \in @}]
    IN  IF err \in {"select", "update"} THEN e
        ELSE addFoldersOfCollection(updated, disk, dirs, collection, folders, modelEmpty)

(***************************************************************************)
(* State.                                                                  *)
(***************************************************************************)
VARIABLES
    disk,         \* file path -> [exists, mtime]: the files on disk
    dirs,         \* folder path -> whether the directory exists and is readable
    db,           \* the relational store (m_db), as committed or inside the open transaction
    docsToScan,   \* m_docsToScan
    chunkList,    \* m_chunkList
    inflight,     \* batches handed to the embedder, oldest first
    embeddings,   \* keys of the vector index (m_embeddings)
    watched,      \* paths of m_watcher
    m_chunkSize,
    pc,           \* "idle", or "tick" inside the loop of Database::scanQueueBatch
    scanned,      \* scanQueueBatch: documents scanned so far in this tick
    txSnap,       \* inside a tick: the store as of the start of the transaction
    toRemove,     \* scanQueueBatch: chunksToRemove
    running,      \* FALSE once the process has died
    ops,          \* requests and file-system changes so far (bounded by MaxOps)
    faults,       \* failures of the store, the files or the vector index so far
    last,         \* the step taken last: [op, res, n, arg]
    added,        \* history: the last addFolder request and the tables as it found them
    replaced,     \* history: chunk ids that committed ticks removed as stale
    retrieved,    \* the last call of retrieveFromDB: its arguments and what it gave
    dbFiles,      \* version -> the file localdocs_v<version>.db in the model path
    openVer,      \* the version of the file m_db has open (0: none)
    m_databaseValid,
    started,      \* Database::start has run
    m_collectionMap,  \* folder id -> the two counters of embeddings of its item
    asserted,     \* the Q_ASSERT of guiCollectionItem has failed
    txLog         \* the calls of transaction, commit and rollback of the handler
                  \* that runs or ran last, in order

vars == << disk, dirs, db, docsToScan, chunkList, inflight, embeddings, watched,
           m_chunkSize, pc, scanned, txSnap, toRemove, running, ops, faults, last,
           added, replaced, retrieved, dbFiles, openVer, m_databaseValid, started,
           m_collectionMap, asserted, txLog >>

\* what the requests and the ticks of the running engine leave as it is
aux == << retrieved, dbFiles, openVer, m_databaseValid, started >>

\* the collection map, the record of its assertion and the calls of the
\* last handler
gui == << m_collectionMap, asserted, txLog >>

\* the map of a process that has just been constructed
NoItems == [k \in {} |-> CollectionItem(0, 0)]

\* arg: the collection name of an addFolder or removeFolder request
Step(op, res, n, arg) == [op |-> op, res |-> res, n |-> n, arg |-> arg]

Eng ==
    [db |-> db, queue |-> docsToScan, chunkList |-> chunkList, inflight |-> inflight,
     embeddings |-> embeddings, watched |-> watched, toRemove |-> toRemove,
     m_collectionMap |-> m_collectionMap, asserted |-> asserted,
     tx |-> IF pc = "idle" THEN <<>> ELSE txLog]

SetEng(e) ==
    /\ db' = e.db
    /\ docsToScan' = e.queue
    /\ chunkList' = e.chunkList
    /\ inflight' = e.inflight
    /\ embeddings' = e.embeddings
    /\ watched' = e.watched
    /\ toRemove' = e.toRemove
    /\ m_collectionMap' = e.m_collectionMap
    /\ asserted' = e.asserted
    /\ txLog' = e.tx

\* the bounds of the model, as a guard on the state an operation leads to
WithinBounds(e) ==
    /\ \A k \in DOMAIN e.queue : Len(e.queue[k]) <= MaxQueue
    /\ Len(e.inflight) <= MaxInFlight
    /\ e.db.seq <= MaxChunkId

\* a file localdocs_v<N>.db: absent, present without tables ("empty") or with
\* tables ("content"); legacy: the rows (collection_name, folder_path) an
\* older version's file holds
DbFile(state, legacy) == [state |-> state, legacy |-> legacy]
Versions == LOCALDOCS_MIN_VER..LOCALDOCS_VERSION

\* Database::hasContent on the file m_db has open
hasContent == openVer # 0 /\ dbFiles[openVer].state = "content"

\* the worker thread is between two handlers, the store open
Idle == pc = "idle" /\ running /\ started /\ hasContent

\* one more request or file-system change, within the bound
Op == ops < MaxOps /\ ops' = ops + 1

\* a step in which something fails takes one of the failures the bound allows
Fails(failing) ==
    IF failing THEN faults < MaxFaults /\ faults' = faults + 1 ELSE faults' = faults

\* the five tables of the store, without the autoincrement counter
Tables(d) ==
    [folders |-> d.folders, documents |-> d.documents, chunks |-> d.chunks,
     chunks_fts |-> d.chunks_fts, collections |-> d.collections]

NoAdd == [collection |-> "", path |-> "", before |-> Tables(EmptyDb)]

\* a rollback that leaves the writes of the transaction in place
rollbackKeepsWrites(current, snapshot) == current

\* QSqlDatabase::rollback: the store goes back to the start of the transaction
rollback(current, snapshot) == snapshot

\* the folder holds one document when the engine starts: a text file or a PDF
InitialDisks ==
    {[f \in FilePaths |-> [exists |-> f = g, mtime |-> 1]] : g \in FilePaths}

Init ==
    /\ disk \in InitialDisks
    /\ dirs = [p \in FolderPaths |-> TRUE]
    /\ db = EmptyDb
    /\ docsToScan = EmptyQueue
    /\ chunkList = <<>>
    /\ inflight = <<>>
    /\ embeddings = {}
    /\ watched = {}
    /\ m_chunkSize = InitialChunkSize
    /\ pc = "idle"
    /\ scanned = 0
    /\ txSnap = EmptyDb
    /\ toRemove = {}
    /\ running = TRUE
    /\ ops = 0
    /\ faults = 0
    /\ last = Step("start", "", 0, "")
    /\ added = NoAdd
    /\ replaced = {}
    /\ retrieved = NoRetrieval
    /\ dbFiles = [v \in Versions |->
                    IF v = LOCALDOCS_VERSION THEN DbFile("content", {})
                    ELSE DbFile("absent", {})]
    /\ openVer = LOCALDOCS_VERSION
    /\ m_databaseValid = TRUE
    /\ started = TRUE
    /\ m_collectionMap = NoItems
    /\ asserted = FALSE
    /\ txLog = <<>>

(***************************************************************************)
(* The environment: files are modified and deleted, directories removed    *)
(* (between ticks: a tick lasts 100 ms).                                   *)
(***************************************************************************)
ModifyFile ==
    \E f \in FilePaths :
        /\ Idle
        /\ disk[f].exists /\ disk[f].mtime < MaxMtime
        /\ disk' = [disk EXCEPT ![f].mtime = @ + 1]
        /\ last' = Step("env", "", 0, "")
        /\ Op
        /\ UNCHANGED << faults, dirs, db, docsToScan, chunkList, inflight, embeddings, watched,
                        m_chunkSize, pc, scanned, txSnap, toRemove, running, added, replaced >>
        /\ UNCHANGED aux
        /\ UNCHANGED gui

DeleteFile ==
    \E f \in FilePaths :
        /\ Idle
        /\ disk[f].exists
        /\ disk' = [disk EXCEPT ![f].exists = FALSE]
        /\ last' = Step("env", "", 0, "")
        /\ Op
        /\ UNCHANGED << faults, dirs, db, docsToScan, chunkList, inflight, embeddings, watched,
                        m_chunkSize, pc, scanned, txSnap, toRemove, running, added, replaced >>
        /\ UNCHANGED aux
        /\ UNCHANGED gui

RemoveDir ==
    \E p \in FolderPaths :
        /\ Idle
        /\ dirs[p]
        /\ dirs' = [dirs EXCEPT ![p] = FALSE]
        /\ disk' = [f \in FilePaths |->
                      IF FolderOf(f) = p THEN [disk[f] EXCEPT !.exists = FALSE] ELSE disk[f]]
        /\ last' = Step("env", "", 0, "")
        /\ Op
        /\ UNCHANGED << faults, db, docsToScan, chunkList, inflight, embeddings, watched,
                        m_chunkSize, pc, scanned, txSnap, toRemove, running, added, replaced >>
        /\ UNCHANGED aux
        /\ UNCHANGED gui

(***************************************************************************)
(* Requests and events handled by the worker thread between ticks.         *)
(***************************************************************************)
AddFolder ==
    \E c \in CollectionNames, p \in FolderPaths, modelEmpty \in BOOLEAN :
        \E e \in {addFolder(Eng, disk, dirs, c, p, modelEmpty)} :
            /\ Idle
            /\ WithinBounds(e)
            /\ SetEng(e)
            /\ last' = Step("addFolder",
                            IF ~dirs[p] THEN "refused"
                            ELSE IF modelEmpty THEN "nomodel" ELSE "added", 0, c)
            /\ Op
            /\ Fails(modelEmpty)
            /\ added' = [collection |-> c, path |-> p, before |-> Tables(db)]
            /\ UNCHANGED << disk, dirs, m_chunkSize, pc, scanned, txSnap, running, replaced >>
            /\ UNCHANGED aux

RemoveFolder ==
    \E c \in CollectionNames, p \in FolderPaths, err \in RemoveErrors :
        \E r \in {removeFolder(Eng, c, p, err)} :
            /\ Idle
            /\ err # "none" => r.res \in {"failed", "rollback"}
            /\ SetEng(r.e)
            /\ last' = Step("removeFolder", r.res, 0, c)
            /\ Op
            /\ Fails(err # "none")
            /\ UNCHANGED << disk, dirs, m_chunkSize, pc, scanned, txSnap, running,
                            added, replaced >>
            /\ UNCHANGED aux

DirectoryChanged ==
    \E p \in watched, err \in CleanErrors :
        \E e \in {directoryChanged(Eng, disk, dirs, p, err)} :
            /\ Idle
            /\ WithinBounds(e)
            /\ SetEng(e)
            /\ last' = Step("directoryChanged", err, 0, "")
            /\ Op
            /\ Fails(err # "none")
            /\ UNCHANGED << disk, dirs, m_chunkSize, pc, scanned, txSnap, running,
                            added, replaced >>
            /\ UNCHANGED aux

ChangeChunkSize ==
    \E k \in ChunkSizes \ {m_chunkSize}, modelEmpty \in BOOLEAN, err \in ChangeErrors :
        \E e \in {changeChunkSize(Eng, disk, dirs, modelEmpty, err)} :
            /\ Idle
            /\ WithinBounds(e)
            /\ m_chunkSize' = k
            /\ SetEng(e)
            /\ last' = Step("changeChunkSize", err, 0, "")
            /\ Op
            /\ ~(modelEmpty /\ err # "none")
            /\ Fails(modelEmpty \/ err # "none")
            /\ UNCHANGED << disk, dirs, pc, scanned, txSnap, running, added, replaced >>
            /\ UNCHANGED aux

EmbeddingsGenerated ==
    /\ Idle
    /\ inflight # <<>>
    /\ \E failed \in SUBSET (1..Len(Head(inflight))) :
          \E e \in {handleEmbeddingsGenerated(Eng, Head(inflight), failed)} :
              /\ SetEng([e EXCEPT !.inflight = Tail(@)])
              /\ last' = Step("embeddings", IF failed = {} THEN "ok" ELSE "addFailed", 0, "")
              /\ Fails(failed # {})
    /\ UNCHANGED << ops, disk, dirs, m_chunkSize, pc, scanned, txSnap, running,
                    added, replaced >>
    /\ UNCHANGED aux

(***************************************************************************)
(* Database::scanQueueBatch, the tick.  TickFirst begins the transaction   *)
(* and scans the first document, TickNext scans a further one; either ends *)
(* the tick when the scan fails (rollback), when the queue is empty or     *)
(* when the 100 ms are over (more = FALSE): the stale vectors are removed  *)
(* and the transaction is committed.                                       *)
(***************************************************************************)
\* what goes wrong in one pass of scanQueue: nothing, one statement (err), one
\* chunk insert (fault), or the division by a zero page count traps (ub)
NoFault == [at |-> 0, kind |-> "none"]
Flaws ==
    {[err |-> e, fault |-> NoFault, ub |-> u] : e \in ScanErrors, u \in DivideByZero}
    \cup {[err |-> "none", fault |-> [at |-> i, kind |-> k], ub |-> "value"] :
            i \in 1..2, k \in InsertFaults}

\* a flaw is kept only where the pass reaches the statement it is about
FlawHit(flaw, r, before) ==
    /\ flaw.err # "none" => r.res = "error"
    /\ flaw.ub = "trap" => r.res = "trap"
    /\ flaw.fault.at > 0 => r.w.db.seq - before.db.seq
                              + (IF flaw.fault.kind = "chunk" THEN 1 ELSE 0) >= flaw.fault.at

tickStep(e, snapshot, n, flaw, more) ==
    \E r \in {scanQueue(e, disk, m_chunkSize, flaw.err, flaw.fault, flaw.ub)} :
    LET over == ~more \/ DOMAIN r.w.queue = {} \/ n + 1 >= MaxPerTick
    IN  /\ FlawHit(flaw, r, e)
        /\ WithinBounds(r.w)
        /\ last' = Step("scan", r.res, n, "")
        /\ Fails(flaw.err # "none" \/ flaw.fault.at > 0)
        /\ txSnap' = IF r.ret /\ ~over THEN snapshot ELSE EmptyDb
        /\ replaced' = IF r.ret /\ over THEN replaced \cup r.w.toRemove ELSE replaced
        /\ IF r.ret
           THEN IF over
                THEN /\ SetEng(commit([r.w EXCEPT !.embeddings = @ \ r.w.toRemove,
                                                  !.toRemove = {}]))
                     /\ pc' = "idle"
                     /\ scanned' = 0
                     /\ UNCHANGED running
                ELSE /\ SetEng(r.w)
                     /\ pc' = "tick"
                     /\ scanned' = n + 1
                     /\ UNCHANGED running
           ELSE IF r.res = "error"
           THEN /\ SetEng(rollbackCalled([r.w EXCEPT !.db = rollback(r.w.db, snapshot),
                                                    !.toRemove = {}]))
                /\ pc' = "idle"
                /\ scanned' = 0
                /\ UNCHANGED running
           ELSE \* the division trapped: the process is gone, its transaction with it
                /\ SetEng([e EXCEPT !.db = snapshot, !.queue = EmptyQueue,
                                    !.chunkList = <<>>, !.inflight = <<>>,
                                    !.toRemove = {}])
                /\ running' = FALSE
                /\ pc' = "idle"
                /\ scanned' = 0

TickFirst ==
    /\ Idle
    /\ DOMAIN docsToScan # {}
    /\ \E flaw \in Flaws, more \in BOOLEAN :
          tickStep(transaction([Eng EXCEPT !.toRemove = {}]), db, 0, flaw, more)
    /\ UNCHANGED << disk, dirs, m_chunkSize, ops, added >>
    /\ UNCHANGED aux

TickNext ==
    /\ pc = "tick" /\ running
    /\ \E flaw \in Flaws, more \in BOOLEAN :
          tickStep(Eng, txSnap, scanned, flaw, more)
    /\ UNCHANGED << disk, dirs, m_chunkSize, ops, added >>
    /\ UNCHANGED aux

Next ==
    \/ ModifyFile
    \/ DeleteFile
    \/ RemoveDir
    \/ AddFolder
    \/ RemoveFolder
    \/ DirectoryChanged
    \/ ChangeChunkSize
    \/ EmbeddingsGenerated
    \/ TickFirst
    \/ TickNext

Spec == Init /\ [][Next]_vars

(***************************************************************************)
(* Retrieval on the store the indexing has built.  retrieveFromDB changes  *)
(* nothing, so a run is followed up to its first retrieval.  limit: the    *)
(* query yields at most retrievalSize of the rows, in bm25 order (any).    *)
(***************************************************************************)
\* what is unchanged by a retrieval
Asked(r, results) ==
    /\ Idle
    /\ retrieved = NoRetrieval
    /\ retrieved' = [r EXCEPT !.results = results]
    /\ last' = Step("retrieve", r.res, 0, "")
    /\ running' = (r.res # "trap")
    /\ UNCHANGED << disk, dirs, db, docsToScan, chunkList, inflight, embeddings,
                    watched, m_chunkSize, pc, scanned, txSnap, toRemove, ops,
                    faults, added, replaced, dbFiles, openVer, m_databaseValid,
                    started >>
    /\ UNCHANGED gui

NoTrap == [trap |-> FALSE, value |-> 0]

\* the vector index is not loaded: n-gram search over chunks_fts
RetrieveSparse ==
    \E collections \in CollectionLists, text \in QueryTexts, k \in RetrievalSizes :
        \E r \in {retrieveFromDB(db, collections, text, k, FALSE, TRUE, {}, NoTrap)} :
            \E results \in {x \in SUBSET r.rows :
                              Cardinality(x) = Min({k, Cardinality(r.rows)})} :
                Asked(r, results)

\* the vector index is loaded: the embedder embeds the text or does not, the
\* index names at most retrievalSize of its keys
RetrieveDense ==
    \E collections \in CollectionLists, text \in DenseQueryTexts, k \in RetrievalSizes :
        \/ \E r \in {retrieveFromDB(db, collections, text, k, TRUE, FALSE, {}, NoTrap)} :
              Asked(r, r.rows)
        \/ \E found \in {x \in SUBSET embeddings : x # {} /\ Cardinality(x) <= k} :
              \E r \in {retrieveFromDB(db, collections, text, k, TRUE, TRUE, found, NoTrap)} :
                  Asked(r, r.rows)
        \/ \E ub \in {[trap |-> TRUE, value |-> 0]}
                       \cup {[trap |-> FALSE, value |-> v] : v \in 0..MaxChunkId} :
              \E r \in {retrieveFromDB(db, collections, text, k, TRUE, TRUE, {}, ub)} :
                  Asked(r, r.rows)

NotRetrieved == retrieved = NoRetrieval /\ faults' = 0

NextRetrieve ==
    \/ NotRetrieved /\ AddFolder
    \/ NotRetrieved /\ TickFirst
    \/ NotRetrieved /\ TickNext
    \/ NotRetrieved /\ EmbeddingsGenerated
    \/ RetrieveSparse
    \/ RetrieveDense

SpecRetrieve == Init /\ [][NextRetrieve]_vars

(***************************************************************************)
(* The engine from its construction on: the files localdocs_v<N>.db found  *)
(* in the model path, Database::start, the requests, the end of the        *)
(* process and the next start.                                             *)
(***************************************************************************)
LegacyRow(collection, path) == [collection_name |-> collection, folder_path |-> path]
LegacyContents == { {LegacyRow("C1", "/a")}, {LegacyRow("C1", "/a"), LegacyRow("C2", "/a")} }

InitStart ==
    /\ dirs \in [FolderPaths -> BOOLEAN]
    /\ disk \in {d \in InitialDisks \cup {[f \in FilePaths |-> [exists |-> FALSE, mtime |-> 1]]} :
                   \A p \in FolderPaths :
                      dirs[p] = (\E f \in FilePaths : FolderOf(f) = p /\ d[f].exists)}
    /\ dbFiles \in {[v \in Versions |-> IF v = LOCALDOCS_VERSION THEN new ELSE old] :
                      new \in {DbFile("absent", {}), DbFile("empty", {})},
                      old \in {DbFile("absent", {}), DbFile("empty", {})}
                              \cup {DbFile("content", l) : l \in LegacyContents}}
    /\ db = EmptyDb
    /\ docsToScan = EmptyQueue
    /\ chunkList = <<>>
    /\ inflight = <<>>
    /\ embeddings = {}
    /\ watched = {}
    /\ m_chunkSize = InitialChunkSize
    /\ pc = "idle"
    /\ scanned = 0
    /\ txSnap = EmptyDb
    /\ toRemove = {}
    /\ running = TRUE
    /\ ops = 0
    /\ faults = 0
    /\ last = Step("constructed", "", 0, "")
    /\ added = NoAdd
    /\ replaced = {}
    /\ retrieved = NoRetrieval
    /\ openVer = 0
    /\ m_databaseValid = TRUE
    /\ started = FALSE
    /\ m_collectionMap = NoItems
    /\ asserted = FALSE
    /\ txLog = <<>>

Start ==
    /\ ~started /\ running /\ pc = "idle"
    /\ \E modelEmpty \in BOOLEAN, err \in StartErrors :
        \E r \in {start(Eng, dbFiles, disk, dirs, modelEmpty, err)} :
            /\ err # "none" => r.res # "ok"
            /\ WithinBounds(r.e)
            /\ SetEng(r.e)
            /\ dbFiles' = r.files
            /\ openVer' = r.open
            /\ m_databaseValid' = r.valid
            /\ started' = TRUE
            /\ last' = Step("start", r.res, 0, IF modelEmpty THEN "nomodel" ELSE "")
            /\ Fails(err # "none")
            /\ UNCHANGED << disk, dirs, m_chunkSize, pc, scanned, txSnap, running, ops,
                            added, replaced, retrieved >>

\* the process ends between two handlers: what the thread held is gone, the
\* files stay.  Tables created in an older version's file are that file's.
Stop ==
    /\ started /\ running /\ pc = "idle"
    /\ started' = FALSE
    /\ openVer' = 0
    /\ m_databaseValid' = TRUE
    /\ docsToScan' = EmptyQueue
    /\ chunkList' = <<>>
    /\ inflight' = <<>>
    /\ watched' = {}
    /\ IF hasContent /\ openVer # LOCALDOCS_VERSION
       THEN /\ dbFiles' = [dbFiles EXCEPT ![openVer].legacy =
                             UNION {{LegacyRow(c.collection_name, f.folder_path) :
                                       f \in {g \in db.folders : g.id = c.folder_id}}
                                    : c \in db.collections}]
            /\ db' = EmptyDb
       ELSE UNCHANGED << dbFiles, db >>
    /\ last' = Step("stop", "", 0, "")
    /\ Op
    /\ UNCHANGED << disk, dirs, embeddings, m_chunkSize, pc, scanned, txSnap, toRemove,
                    running, faults, added, replaced, retrieved >>
    /\ m_collectionMap' = NoItems /\ txLog' = <<>> /\ UNCHANGED asserted

ForceIndexing ==
    \E c \in CollectionNames, modelEmpty \in BOOLEAN, err \in ForceErrors :
        \E e \in {forceIndexing(Eng, disk, dirs, c, modelEmpty, err)} :
            /\ Idle
            /\ WithinBounds(e)
            /\ SetEng(e)
            /\ last' = Step("forceIndexing",
                            IF err # "none" THEN "failed"
                            ELSE IF modelEmpty THEN "nomodel" ELSE "ok", 0, c)
            /\ Op
            /\ ~(modelEmpty /\ err # "none")
            /\ Fails(modelEmpty \/ err # "none")
            /\ UNCHANGED << disk, dirs, m_chunkSize, pc, scanned, txSnap, running,
                            added, replaced >>
            /\ UNCHANGED aux

\* a request while m_db is closed or holds no tables: the first statement of
\* the handler fails and the handler returns; changeChunkSize has set
\* m_chunkSize by then
RequestWithoutStore ==
    /\ started /\ running /\ pc = "idle" /\ ~hasContent
    /\ \/ \E op \in {"addFolder", "removeFolder", "forceIndexing"} :
             /\ last' = Step(op, "failed", 0, "")
             /\ UNCHANGED m_chunkSize
       \/ \E k \in ChunkSizes \ {m_chunkSize} :
             /\ last' = Step("changeChunkSize", "failed", 0, "")
             /\ m_chunkSize' = k
    /\ Op
    /\ UNCHANGED << disk, dirs, db, docsToScan, chunkList, inflight, embeddings, watched,
                    pc, scanned, txSnap, toRemove, running, faults, added, replaced >>
    /\ UNCHANGED aux
    /\ UNCHANGED gui

\* the process dies inside handleEmbeddingsGenerated, after the results up to
\* the k-th were added to the index in memory and marked in the store and
\* before Embeddings::save: the statements of the store are committed one by
\* one, the index file is as the last save left it
CrashInCallback ==
    /\ Idle /\ inflight # <<>>
    /\ \E k \in 1..Len(Head(inflight)) :
          /\ db' = handleEmbeddingsGenerated(Eng, SubSeq(Head(inflight), 1, k), {}).db
          /\ last' = Step("crash", "callback", k, "")
    /\ started' = FALSE
    /\ openVer' = 0
    /\ m_databaseValid' = TRUE
    /\ docsToScan' = EmptyQueue
    /\ chunkList' = <<>>
    /\ inflight' = <<>>
    /\ watched' = {}
    /\ Op
    /\ UNCHANGED << disk, dirs, embeddings, m_chunkSize, pc, scanned, txSnap, toRemove,
                    running, faults, added, replaced, retrieved, dbFiles >>
    /\ m_collectionMap' = NoItems /\ txLog' = <<>> /\ UNCHANGED asserted

\* the ticks in which no statement fails
Sound == faults' = faults

NextStart ==
    \/ Start
    \/ Stop
    \/ ForceIndexing
    \/ RequestWithoutStore
    \/ AddFolder
    \/ EmbeddingsGenerated
    \/ CrashInCallback
    \/ Sound /\ TickFirst
    \/ Sound /\ TickNext

SpecStart == InitStart /\ [][NextStart]_vars

\* the process is started again once it has ended, the scan timer fires
\* while documents are queued and the embedder answers every batch.  The
\* weak fairness of Start and of the passes of a tick is written out,
\* []<>(not enabled) \/ []<>(step taken), with the guard of the action as
\* its enabling condition.
SpecStartFair ==
    /\ SpecStart
    /\ ([]<>(started \/ ~running) \/ []<><<Start>>_vars)
    /\ ([]<>~(Idle /\ DOMAIN docsToScan # {}) \/ []<><<Sound /\ TickFirst>>_vars)
    /\ ([]<>~(pc = "tick" /\ running) \/ []<><<Sound /\ TickNext>>_vars)
    /\ WF_vars(EmbeddingsGenerated)

(***************************************************************************)
(* Properties.                                                             *)
(***************************************************************************)
ChunkIds(d) == {r.chunk_id : r \in d.chunks}
FtsIds(d) == {r.chunk_id : r \in d.chunks_fts}
EmbeddedIds(d) == {r.chunk_id : r \in {c \in d.chunks : c.has_embedding}}

\* the collections attached to a folder
Referents(d, folder_id) ==
    {r.collection_name : r \in selectCollectionsFromFolder(d, folder_id)}

\* the document the next pass of scanQueue takes
NextInfo == dequeueDocument(docsToScan).info

\* nothing is queued, buffered or in flight
Quiescent ==
    /\ pc = "idle" /\ running
    /\ DOMAIN docsToScan = {} /\ chunkList = <<>> /\ inflight = <<>>

\* C1: between ticks every row of chunks has a row of chunks_fts with the same
\* chunk_id and every row of chunks_fts a row of chunks, also after a tick in
\* which an insert into chunks or chunks_fts failed.
C1_ChunksMatchFts == pc = "idle" => ChunkIds(db) = FtsIds(db)

\* C2 as stated: whenever no batch is buffered or in flight, the chunk ids
\* with has_embedding = true are exactly the keys of the vector index (here
\* for the runs in which no statement and no Embeddings::add has failed).
C2_EmbeddedEqualsIndex ==
    (pc = "idle" /\ chunkList = <<>> /\ inflight = <<>> /\ faults = 0)
        => EmbeddedIds(db) = embeddings

\* C2 amended: in every state each chunk with has_embedding = true has its
\* key in the vector index (the index may hold keys of chunks that are gone).
C2_EmbeddedInIndex == EmbeddedIds(db) \subseteq embeddings

\* C2: all batches answered, a chunk is marked and the index holds a key more
C2_Witness ==
    /\ pc = "idle" /\ chunkList = <<>> /\ inflight = <<>>
    /\ EmbeddedIds(db) # {}
    /\ embeddings \ EmbeddedIds(db) # {}

\* C3: when a pass of scanQueue reports a failure the tick is rolled back: all
\* five tables are as they were when the tick began, whatever the earlier
\* passes of the same tick did.
C3_TickAtomic ==
    [][(last'.op = "scan" /\ last'.res = "error")
         => db' = (IF pc = "tick" THEN txSnap ELSE db)]_vars

\* C3: a pass fails after another pass of the same tick went through
C3_Witness == last.op = "scan" /\ last.res = "error" /\ last.n >= 1

\* C4: removeFolder(collection, path) that goes through, for a collection
\* attached to the folder: if it is the only one, the folder row, its
\* documents, their chunks and chunks_fts rows, the association and the
\* vector entries of those chunks are gone; if another collection is attached
\* too, only the row (collection, folder) goes and chunks, chunks_fts,
\* documents, folders and the vector index are unchanged.
C4_RemoveFolder ==
    [][\A c \in CollectionNames, p \in FolderPaths :
        LET fid == selectFolder(db, p)
            docs == selectDocuments(db, fid)
            ids == {r.chunk_id : r \in {x \in db.chunks : x.document_id \in docs}}
        IN  (/\ last'.op = "removeFolder" /\ last'.arg = c
             /\ last'.res \in {"all", "association"}
             /\ fid # -1 /\ c \in Referents(db, fid))
            => IF Referents(db, fid) = {c}
               THEN /\ selectFolder(db', p) = -1
                    /\ selectDocuments(db', fid) = {}
                    /\ \A r \in db'.chunks \cup db'.chunks_fts : r.document_id \notin docs
                    /\ selectCollectionsFromFolder(db', fid) = {}
                    /\ embeddings' \cap ids = {}
               ELSE /\ db'.collections = removeCollection(db, c, fid).collections
                    /\ db'.chunks = db.chunks /\ db'.chunks_fts = db.chunks_fts
                    /\ db'.documents = db.documents /\ db'.folders = db.folders
                    /\ embeddings' = embeddings]_vars

\* C4: the last collection of a scanned folder was removed
C4_Witness ==
    /\ last.op = "removeFolder" /\ last.res = "all"
    /\ db.seq > 0 /\ db.collections = {} /\ db.folders = {}

\* C5: every row of collections references an existing folder, whatever
\* removeFolder calls and cleanups have run.
C5_CollectionsReferenceFolders ==
    \A r \in db.collections : \E f \in db.folders : f.id = r.folder_id

\* C6: a pass of scanQueue in which no statement fails, over a document that
\* is not mid-processing and whose stored document_time equals the file's
\* modification time, leaves chunks and chunks_fts as they are.
C6_UnchangedNotRescanned ==
    [][(/\ last'.op = "scan" /\ last'.res # "error"
        /\ DOMAIN docsToScan # {}
        /\ ~NextInfo.currentlyProcessing
        /\ \E d \in db.documents : /\ d.document_path = NextInfo.doc
                                   /\ d.document_time = disk[NextInfo.doc].mtime)
         => (db'.chunks = db.chunks /\ db'.chunks_fts = db.chunks_fts)]_vars

\* C6: an unchanged document with chunks was scanned again
C6_Witness == last.op = "scan" /\ last.res = "uptodate" /\ db.chunks # {}

\* C7: once the rescans are over and every batch is answered, no chunk id that
\* a rescan replaced is left in chunks, in chunks_fts or in the vector index
\* (here for plain-text documents and runs in which nothing has failed).
C7_ReplacedChunksGone ==
    (/\ Quiescent /\ faults = 0
     /\ \A d \in db.documents : ~isPdf(d.document_path))
        => replaced \cap (ChunkIds(db) \cup FtsIds(db) \cup embeddings) = {}

\* C8: addFolder(collection, path) that found no folders row for the path,
\* followed by a removeFolder(collection, path) that goes through and finds no
\* second collection attached, leaves folders, documents, chunks and
\* chunks_fts as that addFolder found them, and no row (collection, folder) in
\* collections.
C8_AddThenRemoveRestores ==
    [][(/\ last'.op = "removeFolder" /\ last'.arg = added.collection
        /\ added.path \in FolderPaths
        /\ selectFolder(added.before, added.path) = -1
        /\ last'.res = "all")
         => /\ db'.folders = added.before.folders
            /\ db'.documents = added.before.documents
            /\ db'.chunks = added.before.chunks
            /\ db'.chunks_fts = added.before.chunks_fts
            /\ added.collection
                 \notin Referents(db', selectFolder(db, added.path))]_vars

\* C9: the pass over the last page of a PDF (current page + 1 = page count)
\* does not put the document back in the queue.
C9_LastPageNotRequeued ==
    [][(/\ last'.op = "scan" /\ last'.res \in {"requeued", "done"}
        /\ DOMAIN docsToScan # {}
        /\ isPdf(NextInfo.doc)
        /\ NextInfo.currentPage + 1
             = Len(PagesOf(NextInfo.doc, disk[NextInfo.doc].mtime)))
         => last'.res = "done"]_vars

\* C10: no pass of scanQueue ends in an arithmetic fault; in particular the
\* pass over a PDF without pages goes through.
C10_NoArithmeticFault == ~(last.op = "scan" /\ last.res = "trap")

\* the length of a chunk's text: its words joined by single spaces
RECURSIVE sumOfLengths(_)
sumOfLengths(words) ==
    IF words = <<>> THEN 0 ELSE Len(Head(words)) + sumOfLengths(Tail(words))

rejoinedLength(words) == sumOfLengths(words) + (Len(words) - 1)

\* the words the files hold, and the length of the longest
AllWords ==
    UNION {{TextOf(f, t).words[i] : i \in 1..Len(TextOf(f, t).words)}
             \cup UNION {{PagesOf(f, t)[p].words[i] : i \in 1..Len(PagesOf(f, t)[p].words)}
                           : p \in 1..Len(PagesOf(f, t))}
           : f \in FilePaths, t \in 1..MaxMtime}

max_word_length == Max({Len(w) : w \in AllWords})

\* the chunk inserted last for its document
finalChunkOfDocument(d, c) ==
    \A x \in d.chunks : x.document_id = c.document_id => x.chunk_id <= c.chunk_id

\* C11: after changeChunkSize(k) and the rescan it starts (nothing queued,
\* buffered or in flight, nothing has failed), every chunk in the store has a
\* rejoined length of at least k - max_word_length or is the final chunk of
\* its document, PDFs of several pages included.
C11_ChunksHaveNewSize ==
    (Quiescent /\ faults = 0 /\ m_chunkSize # InitialChunkSize)
        => \A c \in db.chunks :
              \/ rejoinedLength(c.chunk_text) >= m_chunkSize - max_word_length
              \/ finalChunkOfDocument(db, c)

\* the words of a query text: its tokens without punctuation, the empty ones dropped
wordsOfQuery(text) ==
    SelectSeq([i \in 1..Len(text) |-> removePunctuation(text[i])], LAMBDA w : w # "")

\* the chunk ids a retrieval returned
ReturnedIds == {x.chunk_id : x \in retrieved.results}

\* C12: a sparse retrieval (vector index not loaded) of a query of two words
\* returns every indexed chunk of a supplied collection in which both words
\* occur (retrievalSize leaving room for it).
C12_TwoWordQueryFindsChunk ==
    (/\ retrieved.res # "none" /\ ~retrieved.loaded
     /\ Len(retrieved.text) = 2 /\ Len(wordsOfQuery(retrieved.text)) = 2)
        => \A r \in db.chunks_fts :
              (/\ \A i \in 1..2 : \E j \in 1..Len(r.chunk_text) :
                                     r.chunk_text[j] = retrieved.text[i]
               /\ joinRows(db, {r}, retrieved.collections) # {}
               /\ retrieved.retrievalSize > Cardinality(db.chunks_fts) * Len(retrieved.collections))
                  => r.chunk_id \in ReturnedIds

\* C13: a sparse retrieval of a query with fewer than three words once the
\* punctuation is stripped (the empty query and queries of punctuation only
\* included) returns nothing and fails in no statement, and no n-gram of fewer
\* than three words is sent to the full-text index.
C13_ShortQueryNoResults ==
    (/\ retrieved.res # "none" /\ ~retrieved.loaded
     /\ Len(wordsOfQuery(retrieved.text)) < 3)
        => /\ retrieved.results = {}
           /\ retrieved.res = "ok"
           /\ \A g \in retrieved.issued : Len(g.words) >= 3

\* the older version's file that openLatestDb reads the collections from
legacyVersion ==
    IF \E v \in Versions : dbFiles[v].state = "content"
    THEN Max({v \in Versions : dbFiles[v].state = "content"}) ELSE 0

migrating == ~started /\ legacyVersion # 0 /\ legacyVersion < LOCALDOCS_VERSION

\* the (collection, folder) pair is in the open store, marked force_indexing
forcedPair(d, l) ==
    \E f \in d.folders, c \in d.collections :
        /\ f.folder_path = l.folder_path
        /\ c.folder_id = f.id
        /\ c.collection_name = l.collection_name
        /\ c.force_indexing

\* C14: a start that finds an older version's file with collections, in which
\* no statement fails and the embedder has a model, leaves the engine valid
\* and the current version's store holding every legacy (collection, folder)
\* pair with force_indexing set, no documents and no chunks, whatever the
\* state of the folders on disk
C14_LegacyCollectionsMigrated ==
    [][(migrating /\ started' /\ faults' = faults /\ last'.arg # "nomodel")
          => /\ m_databaseValid'
             /\ openVer' = LOCALDOCS_VERSION
             /\ \A l \in dbFiles[legacyVersion].legacy : forcedPair(db', l)
             /\ db'.documents = {}
             /\ db'.chunks = {}]_vars

\* folders with documents in the scan queue, folders of the chunks that wait
\* in the chunk list or are with the embedder
queuedFolders(queue) == {k \in DOMAIN queue : queue[k] # <<>>}
foldersOfBatch(batch) == {batch[i].folder_id : i \in DOMAIN batch}
dispatchedFolders(list, batches) ==
    foldersOfBatch(list) \cup UNION {foldersOfBatch(batches[i]) : i \in DOMAIN batches}
queuedFiles(queue, folder_id) ==
    IF folder_id \in DOMAIN queue
    THEN {queue[folder_id][i].doc : i \in DOMAIN queue[folder_id]} ELSE {}

\* the step is Database::start; the step is a forceIndexing whose statements
\* succeed, with a model in the embedder
startStep == ~started /\ started'
forceStep == started /\ ops' = ops + 1 /\ last'.op = "forceIndexing" /\ last'.res = "ok"

forcedOnly(d, folder_id) ==
    \A c \in d.collections : c.folder_id = folder_id => c.force_indexing

C16_NoModelNoChange ==
    [][(ops' = ops + 1 /\ last'.op = "addFolder" /\ last'.res = "nomodel")
          => /\ db'.folders = db.folders
             /\ db'.collections = db.collections
             /\ watched' = watched
             /\ docsToScan' = docsToScan]_vars

\* C17: once Database::start has set m_databaseValid to false, no request,
\* event, callback or tick of that process changes the relational store or
\* the vector index or enqueues a document
C17_InvalidAcceptsNothing ==
    [][(started /\ ~m_databaseValid /\ started')
          => /\ db' = db
             /\ embeddings' = embeddings
             /\ docsToScan' = docsToScan]_vars

\* the step is a pass of scanQueue that returned false: the tick is rolled
\* back; the document that pass dequeued
rolledBack ==
    /\ DOMAIN docsToScan # {}
    /\ last'.op = "scan" /\ last'.res = "error"
    /\ faults' = faults + 1
    /\ pc' = "idle"
offending == dequeueDocument(docsToScan).info

\* documents rows written by the earlier passes of the tick, gone with the
\* rollback
undoneDocuments == {d.document_path : d \in db.documents \ db'.documents}

\* C18: after a tick is rolled back the document whose pass failed is still
\* in its folder's queue, every queued document that is marked as in
\* processing has its documents row in the rolled-back store, and every
\* document whose row the rollback undid is queued to be scanned again
C18_RolledBackDocumentsStayQueued ==
    [][rolledBack
          => /\ offending.doc \in queuedFiles(docsToScan', offending.folder)
             /\ \A k \in DOMAIN docsToScan' :
                   \A i \in DOMAIN docsToScan'[k] :
                      docsToScan'[k][i].currentlyProcessing
                          => \E d \in db'.documents :
                                /\ d.document_path = docsToScan'[k][i].doc
                                /\ d.folder_id = k
             /\ \A k \in DOMAIN docsToScan :
                   \A path \in undoneDocuments :
                      FolderOf(path) \in {f.folder_path : f \in {g \in db.folders : g.id = k}}
                          => path \in queuedFiles(docsToScan', k)]_vars

\* the chunks that are with the embedder
handedOver(batches) == UNION {{batches[i][j] : j \in DOMAIN batches[i]} : i \in DOMAIN batches}

\* C19: when a tick is rolled back, none of the chunks it inserted is with
\* the embedder: every chunk handed over that was numbered after the start
\* of the transaction is absent
C19_RolledBackChunksNotEmbedded ==
    [][rolledBack => \A c \in handedOver(inflight') : c.chunk_id <= db'.seq]_vars

\* the step is a pass of scanQueue in which a statement failed, an insert
\* into chunks or chunks_fts included
passFailed == last'.op = "scan" /\ faults' = faults + 1

\* the chunks the coordinator holds or has sent
pendingChunks(list, batches) == {list[i] : i \in DOMAIN list} \cup handedOver(batches)

\* C20: a pass in which a statement fails, the insert of a chunk into chunks
\* or chunks_fts included, reports an error, the tick is rolled back to the
\* tables as of its start, and the pass gives no chunk to the embedding
\* coordinator
C20_FailedInsertRollsBack ==
    [][passFailed
          => /\ last'.res = "error"
             /\ pc' = "idle"
             /\ db' = (IF pc = "tick" THEN txSnap ELSE db)
             /\ pendingChunks(chunkList', inflight')
                    \subseteq pendingChunks(chunkList, inflight)]_vars

\* the step is the callback for the oldest batch with the embedder
callbackStep == inflight # <<>> /\ last'.op = "embeddings" /\ inflight' = Tail(inflight)

\* C21: in a run in which nothing has failed, a callback writes no vector for
\* a chunk of a folder whose row has been deleted: every key it adds to the
\* vector index is of a chunk whose folder is in the store
C21_NoVectorForRemovedFolder ==
    [][(callbackStep /\ faults' = 0)
          => \A i \in DOMAIN Head(inflight) :
                Head(inflight)[i].chunk_id \in embeddings' \ embeddings
                    => Head(inflight)[i].folder_id \in {f.id : f \in db.folders}]_vars

\* the chunk ids of the batch the callback is for
batchIds == {Head(inflight)[i].chunk_id : i \in DOMAIN Head(inflight)}

\* C21, amended: the removeFolder that deletes a folder's rows takes the keys
\* of the chunks it deletes out of the vector index; a callback for a batch
\* that was buffered or with the embedder adds keys of its batch only, keeps
\* the keys there are, creates and deletes no chunks row and marks
\* has_embedding only on rows whose key it has added: what it writes for a
\* removed folder are vectors without a chunk
C21_LateBatchLeavesOrphansOnly ==
    [][/\ (ops' = ops + 1 /\ last'.op = "removeFolder" /\ last'.res = "all")
            => embeddings' \cap (ChunkIds(db) \ ChunkIds(db')) = {}
       /\ callbackStep
            => /\ embeddings \subseteq embeddings'
               /\ embeddings' \ embeddings \subseteq batchIds
               /\ ChunkIds(db') = ChunkIds(db)
               /\ FtsIds(db') = FtsIds(db)
               /\ \A r \in db'.chunks \ db.chunks :
                     r.has_embedding /\ r.chunk_id \in batchIds \cap embeddings']_vars

\* C21: the folder is gone and the callback of its batch has left vectors
C21_Witness ==
    /\ last.op = "embeddings" /\ last.res = "ok"
    /\ db.folders = {} /\ db.chunks = {}
    /\ embeddings # {}

\* C22: in every state of a run in which no statement has failed, every
\* chunks row has its documents row and every documents row its folders row
\* (a chunk is never written with the document_id -1 that the assertion in
\* scanQueue excludes)
C22_ReferentialIntegrity ==
    faults = 0
        => /\ \A c \in db.chunks : \E d \in db.documents : d.id = c.document_id
           /\ \A d \in db.documents : \E f \in db.folders : f.id = d.folder_id

\* C23: when the process has ended, nothing having failed, with a PDF only
\* partly indexed (its documents row carries the file's modification time,
\* chunks of some page are missing), then after the restart the document is
\* eventually complete, chunks of every page being in the store, unless a
\* statement fails or the restart finds the embedder without a model
C23_PartialDocumentCompleted ==
    (/\ ~started /\ faults = 0
     /\ \E d \in db.documents :
           /\ isPdf(d.document_path)
           /\ disk[d.document_path].exists
           /\ d.document_time = disk[d.document_path].mtime
           /\ {c.page : c \in {x \in db.chunks : x.document_id = d.id}}
                 # 1..Len(PagesOf(d.document_path, d.document_time)))
    ~> (\/ faults > 0
        \/ last.op = "start" /\ last.arg = "nomodel"
        \/ \A d \in db.documents :
              isPdf(d.document_path)
                 => {c.page : c \in {x \in db.chunks : x.document_id = d.id}}
                       = 1..Len(PagesOf(d.document_path, d.document_time)))

\* C24: after a restart that went through, every chunk with has_embedding set
\* has its key in the vector index loaded from the file, whatever the point
\* at which the process died before
C24_MarkedChunksPersisted ==
    (started /\ last.op = "start" /\ last.res = "ok")
        => EmbeddedIds(db) \subseteq embeddings

(***************************************************************************)
(* The point of no return of a batch operation, statement by statement.    *)
(* scanQueueBatch, removeFolderInternal, cleanDB and changeChunkSize end    *)
(* with the same four lines: the loop of m_embeddings->remove, commit(),    *)
(* and m_embeddings->save() when chunksToRemove is not empty.  Here the     *)
(* removal of a folder is taken one statement at a time:                    *)
(*   pc = "apply"   the statements of the transaction have succeeded        *)
(*   pc = "commit"  the loop of m_embeddings->remove has run                *)
(*   pc = "save"    commit() has returned                                   *)
(* txSnap holds the store as of transaction() while the transaction is open. *)
(***************************************************************************)
RemoveBegin ==
    /\ Idle
    /\ \E c \in CollectionNames, p \in watched :
          \E r \in {removeFolder(Eng, c, p, "none")} :
              /\ r.res = "all"
              /\ db' = r.e.db
              /\ docsToScan' = r.e.queue
              /\ m_collectionMap' = IF selectFolder(db, p) \in DOMAIN docsToScan
                                    THEN removeGuiFolderById(m_collectionMap,
                                                             selectFolder(db, p))
                                    ELSE m_collectionMap
              /\ toRemove' = ChunkIds(db) \ ChunkIds(r.e.db)
              /\ txSnap' = db
              /\ last' = Step("removeFolder", "statements", selectFolder(db, p), p)
              /\ txLog' = transaction(Eng).tx
    /\ pc' = "apply"
    /\ Op
    /\ UNCHANGED << disk, dirs, chunkList, inflight, embeddings, watched, m_chunkSize,
                    scanned, running, faults, added, replaced, asserted >>
    /\ UNCHANGED aux

\* for (const auto &chunk: chunksToRemove) m_embeddings->remove(chunk);
RemoveStale ==
    /\ pc = "apply" /\ running
    /\ embeddings' = embeddings \ toRemove
    /\ pc' = "commit"
    /\ last' = Step("removeFolder", "remove", last.n, last.arg)
    /\ UNCHANGED << disk, dirs, db, docsToScan, chunkList, inflight, watched, m_chunkSize,
                    scanned, txSnap, toRemove, running, ops, faults, added, replaced >>
    /\ UNCHANGED aux
    /\ UNCHANGED gui

\* commit();
Commit ==
    /\ pc = "commit" /\ running
    /\ txSnap' = EmptyDb
    /\ txLog' = commit(Eng).tx
    /\ pc' = "save"
    /\ last' = Step("removeFolder", "commit", last.n, last.arg)
    /\ UNCHANGED << disk, dirs, db, docsToScan, chunkList, inflight, embeddings, watched,
                    m_chunkSize, scanned, toRemove, running, ops, faults, added, replaced >>
    /\ UNCHANGED aux
    /\ UNCHANGED << m_collectionMap, asserted >>

\* if (!chunksToRemove.isEmpty()) m_embeddings->save(); then the folder
\* (last.n: its id) leaves the collection map and the watcher
Save ==
    /\ pc = "save" /\ running
    /\ m_collectionMap' = removeGuiFolderById(m_collectionMap, last.n)
    /\ watched' = watched \ {last.arg}
    /\ toRemove' = {}
    /\ pc' = "idle"
    /\ last' = Step("removeFolder", IF toRemove # {} THEN "saved" ELSE "all", 0, last.arg)
    /\ UNCHANGED << disk, dirs, db, docsToScan, chunkList, inflight, embeddings,
                    m_chunkSize, scanned, txSnap, running, ops, faults, added, replaced,
                    asserted, txLog >>
    /\ UNCHANGED aux

NextApply ==
    \/ AddFolder
    \/ EmbeddingsGenerated
    \/ Sound /\ TickFirst
    \/ Sound /\ TickNext
    \/ RemoveBegin
    \/ RemoveStale
    \/ Commit
    \/ Save

SpecApply == Init /\ [][NextApply]_vars

\* C25: in a successful batch operation the stale entries leave the vector
\* index only after the transaction of the store has been committed, and the
\* index is written to its file after that removal
C25_StaleRemovedAfterCommit ==
    [][faults = 0 =>
          /\ (pc \in {"apply", "commit", "save"} /\ embeddings' # embeddings)
                => txSnap = EmptyDb
          /\ last'.res = "saved" => (txSnap = EmptyDb /\ embeddings \cap toRemove = {})]_vars

C27_ScanInOrder ==
    [][/\ (last'.op = "scan" /\ last'.res \in {"requeued", "done", "uptodate", "gone"})
            => LET f == Min(DOMAIN docsToScan)
                   q == docsToScan[f]
                   q2 == IF f \in DOMAIN docsToScan' THEN docsToScan'[f] ELSE <<>>
               IN  IF last'.res = "requeued"
                   THEN /\ q2 # <<>>
                        /\ Tail(q2) = Tail(q)
                        /\ Head(q2).doc = Head(q).doc
                        /\ Head(q2).currentlyProcessing
                        /\ IF isPdf(Head(q).doc)
                           THEN Head(q2).currentPage = Head(q).currentPage + 1
                           ELSE Head(q2).currentPosition > Head(q).currentPosition
                   ELSE q2 = Tail(q)
       /\ \A f \in DOMAIN docsToScan' : \A i \in 2..Len(docsToScan'[f]) :
             ~docsToScan'[f][i].currentlyProcessing]_vars

\* a directory change has enqueued a document behind one that is in the
\* middle of its processing
C27_Witness ==
    /\ last.op = "directoryChanged"
    /\ \E f \in DOMAIN docsToScan :
          /\ Len(docsToScan[f]) = 2
          /\ docsToScan[f][1].currentlyProcessing
          /\ docsToScan[f][1].currentPage + docsToScan[f][1].currentPosition > 0

(***************************************************************************)
(* The scan queue on its own: documents of several folders are enqueued at *)
(* either end, drawn and removed by folder, in any order.                  *)
(***************************************************************************)
MaxFolderId == 3

QueueEnqueue ==
    /\ \E folder \in 1..MaxFolderId, doc \in {FileOrder[i] : i \in 1..Len(FileOrder)},
          prepend \in BOOLEAN :
          /\ countOfDocuments(docsToScan, folder) < MaxQueue
          /\ docsToScan' = enqueueDocumentInternal(docsToScan, DocumentInfo(folder, doc), prepend)
          /\ last' = Step("enqueue", doc, folder, "")
    /\ UNCHANGED << disk, dirs, db, chunkList, inflight, embeddings, watched, m_chunkSize, pc,
                    scanned, txSnap, toRemove, running, ops, faults, added, replaced >>
    /\ UNCHANGED aux
    /\ UNCHANGED gui

\* the loop of scanQueueBatch calls scanQueue, and so dequeueDocument, while
\* m_docsToScan is not empty
QueueDequeue ==
    /\ DOMAIN docsToScan # {}
    /\ \E d \in {dequeueDocument(docsToScan)} :
          /\ docsToScan' = d.queue
          /\ last' = Step("dequeue", d.info.doc, d.info.folder, "")
    /\ UNCHANGED << disk, dirs, db, chunkList, inflight, embeddings, watched, m_chunkSize, pc,
                    scanned, txSnap, toRemove, running, ops, faults, added, replaced >>
    /\ UNCHANGED aux
    /\ UNCHANGED gui

QueueRemove ==
    /\ \E folder \in 1..MaxFolderId :
          /\ docsToScan' = removeFolderFromDocumentQueue(docsToScan, folder)
          /\ m_collectionMap' = IF folder \in DOMAIN docsToScan
                                THEN removeGuiFolderById(m_collectionMap, folder)
                                ELSE m_collectionMap
          /\ last' = Step("removeFromQueue", "", folder, "")
    /\ UNCHANGED << disk, dirs, db, chunkList, inflight, embeddings, watched, m_chunkSize, pc,
                    scanned, txSnap, toRemove, running, ops, faults, added, replaced,
                    asserted, txLog >>
    /\ UNCHANGED aux

NextQueue == QueueEnqueue \/ QueueDequeue \/ QueueRemove

SpecQueue == Init /\ [][NextQueue]_vars

\* C28: every dequeue takes the head of the queue of the smallest folder id
\* that has queued documents, and after an enqueue, a dequeue or the removal
\* of a folder no key of the queue map holds an empty queue, so that both
\* assertions of dequeueDocument hold when the worker loop calls it
C28_DequeueFirstNonEmpty ==
    [][/\ last'.op = "dequeue" =>
            LET queued == {k \in DOMAIN docsToScan : docsToScan[k] # <<>>}
            IN  /\ queued # {}
                /\ last'.n = Min(queued)
                /\ last'.res = Head(docsToScan[Min(queued)]).doc
                /\ \A k \in queued \ {Min(queued)} :
                      k \in DOMAIN docsToScan' /\ docsToScan'[k] = docsToScan[k]
                /\ IF Tail(docsToScan[Min(queued)]) = <<>>
                   THEN Min(queued) \notin DOMAIN docsToScan'
                   ELSE docsToScan'[Min(queued)] = Tail(docsToScan[Min(queued)])
       /\ \A k \in DOMAIN docsToScan' : docsToScan'[k] # <<>>]_vars

\* the last document of the smallest folder was drawn while other folders
\* had documents queued
C28_Witness ==
    /\ last.op = "dequeue"
    /\ last.n \notin DOMAIN docsToScan
    /\ \E k \in DOMAIN docsToScan : k > last.n

\* C29: a plain-text document is put back into the queue after a pass only
\* if the pass stopped before the end of the file; a file that one pass
\* consumes to its end is not enqueued again, so that a file of at most
\* maxChunksText chunks takes one pass
C29_RequeuedOnlyBeforeEnd ==
    [][(/\ faults' = 0
        /\ last'.op = "scan" /\ last'.res = "requeued"
        /\ ~isPdf(Head(docsToScan[Min(DOMAIN docsToScan)]).doc))
          => LET f == Min(DOMAIN docsToScan)
                 doc == Head(docsToScan[f]).doc
             IN  Head(docsToScan'[f]).currentPosition
                    < StreamSize(TextOf(doc, disk[doc].mtime))]_vars

\* C30: the chunker emits a chunk only when its word buffer is not empty:
\* every chunk has at least one word, also when the stream ends with
\* whitespace right after a chunk was emitted at the size threshold
C30_NoEmptyChunk ==
    faults = 0 => \A c \in db.chunks : c.chunk_text # <<>>

\* C31: after a start that succeeded every chunk without embedding, a chunk
\* whose vector could not be added earlier included, whose document is in a
\* folder of a collection that is not marked force_indexing is in a batch
\* handed to the embedder
C31_UncompletedDispatchedAtStart ==
    (started /\ last.op = "start" /\ last.res = "ok")
        => \A c \in db.chunks :
              (/\ ~c.has_embedding
               /\ \E d \in db.documents :
                     /\ d.id = c.document_id
                     /\ \E col \in db.collections :
                           col.folder_id = d.folder_id /\ ~col.force_indexing)
                 => \E i \in 1..Len(inflight) : \E j \in 1..Len(inflight[i]) :
                       inflight[i][j].chunk_id = c.chunk_id

\* a start has dispatched a chunk whose vector could not be added in the run
\* before, next to a chunk of the same store that has its vector
C31_Witness ==
    /\ started /\ last.op = "start" /\ last.res = "ok" /\ faults = 1
    /\ \E c \in db.chunks :
          /\ ~c.has_embedding
          /\ \E i \in 1..Len(inflight) : \E j \in 1..Len(inflight[i]) :
                inflight[i][j].chunk_id = c.chunk_id
    /\ \E c \in db.chunks : c.has_embedding /\ c.chunk_id \in embeddings

\* C32: after a start, whatever files localdocs_v<N>.db were found (none, one
\* of the current version, an older one with content, an older one without a
\* chunks table), the file the engine has open and holds its tables in is the
\* one named for the current version
C32_CurrentVersionOpen ==
    (started /\ faults = 0 /\ last.op = "start" /\ last.res = "ok")
        => openVer = LOCALDOCS_VERSION /\ dbFiles[LOCALDOCS_VERSION].state = "content"

\* C33: when the vector index is loaded and the embedder gives no vector for
\* the query text, retrieve answers by the sparse path: the rows the n-gram
\* queries of the text select, not nothing
C33_SparseWhenNoEmbedding ==
    (retrieved.loaded /\ retrieved.res = "noembedding")
        => \E sparse \in {selectChunkByText(db, retrieved.collections, retrieved.text,
                                            Len(retrieved.text), {})} :
              /\ retrieved.issued = sparse.issued
              /\ retrieved.rows = sparse.rows

NextDrain ==
    \/ AddFolder
    \/ DeleteFile
    \/ EmbeddingsGenerated
    \/ TickFirst
    \/ TickNext

SpecDrain ==
    /\ Init /\ [][NextDrain]_vars
    /\ ([]<>~(Idle /\ DOMAIN docsToScan # {}) \/ []<><<TickFirst>>_vars)
    /\ ([]<>~(pc = "tick" /\ running) \/ []<><<TickNext>>_vars)
    /\ WF_vars(EmbeddingsGenerated)

\* C35: when no more documents are enqueued and the files stay as they are,
\* the ticks empty the scan queue: every queued document is completed,
\* skipped or dropped after finitely many passes, also when a document fails
\* and its tick is rolled back
C35_QueueDrains ==
    (DOMAIN docsToScan # {}) ~> (DOMAIN docsToScan = {})

\* a tick was rolled back and the queue is empty
C35_Witness ==
    /\ last.op = "scan" /\ last.res = "error" /\ faults = 1
    /\ DOMAIN docsToScan = {} /\ pc = "idle" /\ running

(***************************************************************************)
(* C36: every folder_id whose item is looked up has an item in the         *)
(* collection map: the assertion of guiCollectionItem never fails, also    *)
(* for a callback of the embedder that arrives after the folder was        *)
(* removed, for the rescan after the cleanup of directoryChanged and after *)
(* a removal that was rolled back.                                         *)
(***************************************************************************)
C36_ItemForEveryLookup == ~asserted

(***************************************************************************)
(* C37: for every folder current_embeddings_to_index never exceeds         *)
(* total_embeddings_to_index, and the two are equal once nothing is left   *)
(* to scan or to send and every batch handed to the embedder has come back *)
(* (stated for the runs in which nothing fails and every lookup of an item *)
(* has found one).                                                         *)
(***************************************************************************)
C37_CurrentWithinTotal ==
    faults = 0 /\ ~asserted =>
        \A f \in DOMAIN m_collectionMap :
            /\ m_collectionMap[f].currentEmbeddingsToIndex
                  <= m_collectionMap[f].totalEmbeddingsToIndex
            /\ Quiescent => m_collectionMap[f].currentEmbeddingsToIndex
                              = m_collectionMap[f].totalEmbeddingsToIndex

(***************************************************************************)
(* C38: a retrieval that gives results gives at most retrievalSize of      *)
(* them and gives no chunk twice, with the vector index (dense) and        *)
(* without it (sparse), also when a folder belongs to several of the       *)
(* collections asked for and when the index search names no chunk id.      *)
(***************************************************************************)
C38_AtMostKDistinctResults ==
    /\ Cardinality(retrieved.results) <= retrieved.retrievalSize
    /\ \A x \in retrieved.results, y \in retrieved.results :
          x.chunk_id = y.chunk_id => x = y

(***************************************************************************)
(* The operations that open a transaction, from the start of the engine    *)
(* on: initDb, the scan tick, the removal of a folder, the cleanup after a *)
(* change of a directory and the change of the chunk size.                 *)
(***************************************************************************)
NextTx ==
    \/ Start
    \/ DeleteFile
    \/ RemoveDir
    \/ AddFolder
    \/ RemoveFolder
    \/ DirectoryChanged
    \/ ChangeChunkSize
    \/ TickFirst
    \/ TickNext

\* the engine is constructed with its folder and the text file in place
InitTx ==
    /\ InitStart
    /\ \A p \in FolderPaths : dirs[p]
    /\ disk["/a/a.txt"].exists

SpecTx == InitTx /\ [][NextTx]_vars

(***************************************************************************)
(* C39: every transaction an operation opens is ended by one commit or one *)
(* rollback before the operation returns, whatever fails: the calls of a   *)
(* handler alternate between transaction() and commit() or rollback(), so  *)
(* that none is opened while another is open, and between two handlers of  *)
(* the running engine none is open; inside a tick one is.                  *)
(***************************************************************************)
C39_TransactionsBracketed ==
    /\ \A i \in 1..Len(txLog) :
          IF i % 2 = 1 THEN txLog[i] = "transaction"
          ELSE txLog[i] \in {"commit", "rollback"}
    /\ running /\ pc = "idle" => Len(txLog) % 2 = 0
    /\ running /\ pc = "tick" => Len(txLog) = 1

\* the cleanup has removed a folder in one transaction and gone through the
\* documents in a second one
C39_Witness ==
    /\ last.op = "directoryChanged"
    /\ txLog = << "transaction", "commit", "transaction", "commit" >>
    /\ pc = "idle" /\ running

====
